---- MODULE Spec2Model ----
(***************************************************************************)
(* A model of pyredis (pythonic-redis): Python collection interfaces whose *)
(* storage is a remote key-value store.  The store is modelled by the      *)
(* commands the wrappers send to it; the wrappers are modelled from        *)
(* src/pyredis/collections.py and src/pyredis/ttl.py.                      *)
(***************************************************************************)
EXTENDS Integers, Sequences, FiniteSets, TLC

VARIABLES
    deq,      \* the locals of a running _dict_eq
    store,    \* the remote store: key -> typed value with expiry
    now,      \* the clock of the store
    last,     \* the last call made and how it ended
    ref,      \* reference dicts, one per ObjectRedis instance (history)
    owner,    \* the instance through which each store key was written (history)
    pcs       \* the position of each client inside a call of several commands

vars == <<deq, store, now, last, ref, owner, pcs>>

(***************************************************************************)
(* Bounds of the model.                                                    *)
(***************************************************************************)
MaxItems == 3

\* The longest list, and the largest dict, handed to a collection.
MaxElems == 2

\* The largest time-to-live, and the last tick of the clock.
MaxTtl == 2

MaxTime == 3

\* The longest RedisList.
MaxListLen == 3

(***************************************************************************)
(* Python dicts as TLA+ functions.                                         *)
(***************************************************************************)
EmptyDict == <<>>

DictPut(d, k, v) == [x \in DOMAIN d \cup {k} |-> IF x = k THEN v ELSE d[x]]

DictDel(d, k) == [x \in DOMAIN d \ {k} |-> d[x]]

DictLen(d) == Cardinality(DOMAIN d)

(***************************************************************************)
(* _dict_eq(a, b): collections.py 269-318.  The two mappings are given by  *)
(* the sequences of (key, value) pairs their items iterators yield.        *)
(***************************************************************************)
EqKeys == 1..MaxItems

EqVals == {0, 1}

RECURSIVE SeqsUpTo(_, _)
SeqsUpTo(S, n) ==
    IF n = 0 THEN {<<>>}
    ELSE LET shorter == SeqsUpTo(S, n - 1)
         IN  shorter \cup {Append(s, x) : s \in {t \in shorter : Len(t) = n - 1}, x \in S}

\* The items iterators a mapping can have: pairwise distinct keys, any order.
ItemSeqs ==
    {s \in SeqsUpTo(EqKeys \X EqVals, MaxItems) :
        \A i, j \in 1..Len(s) : i # j => s[i][1] # s[j][1]}

\* One pass of the body of the for loop (lines 296-317) over the pair
\* (ak, av) of a and the pair next(bi) of b.
DictEqLoopBodyNoValueCheck(st) ==
    LET ak == st.a[st.bi][1]
        av == st.a[st.bi][2]
        bk == st.b[st.bi][1]
        bv == st.b[st.bi][2]
        size == Len(st.a)
        ret(v) == [st EXCEPT !.pc = "done", !.ret = v]
    IN  IF ak = bk
        THEN [st EXCEPT !.bi = st.bi + 1]
        ELSE
          LET hitA == ak \in DOMAIN st.bm
              bm1 == IF hitA THEN DictDel(st.bm, ak) ELSE st.bm
              am1 == IF hitA THEN st.am ELSE DictPut(st.am, ak, av)
              hitB == bk \in DOMAIN am1
              am2 == IF hitB THEN DictDel(am1, bk) ELSE am1
              bm2 == IF hitB THEN bm1 ELSE DictPut(bm1, bk, bv)
          IN  IF DictLen(am2) + DictLen(bm2) > size
              THEN ret(FALSE)
              ELSE [st EXCEPT !.am = am2, !.bm = bm2, !.bi = st.bi + 1]

DictEqLoopBody(st) ==
    LET ak == st.a[st.bi][1]
        av == st.a[st.bi][2]
        bk == st.b[st.bi][1]
        bv == st.b[st.bi][2]
        size == Len(st.a)
        ret(v) == [st EXCEPT !.pc = "done", !.ret = v]
    IN  IF ak = bk
        THEN IF av # bv
             THEN ret(FALSE)
             ELSE IF DictLen(st.am) + DictLen(st.bm) > size
                  THEN ret(FALSE)
                  ELSE [st EXCEPT !.bi = st.bi + 1]
        ELSE
          LET hitA == ak \in DOMAIN st.bm
              hitB == bk \in DOMAIN (IF hitA THEN st.am ELSE DictPut(st.am, ak, av))
          IN  IF hitA /\ st.bm[ak] # av
              THEN ret(FALSE)
              ELSE
                LET bm1 == IF hitA THEN DictDel(st.bm, ak) ELSE st.bm
                    am1 == IF hitA THEN st.am ELSE DictPut(st.am, ak, av)
                IN  IF hitB /\ am1[bk] # bv
                    THEN ret(FALSE)
                    ELSE
                      LET am2 == IF hitB THEN DictDel(am1, bk) ELSE am1
                          bm2 == IF hitB THEN bm1 ELSE DictPut(bm1, bk, bv)
                      IN  IF DictLen(am2) + DictLen(bm2) > size
                          THEN ret(FALSE)
                          ELSE [st EXCEPT !.am = am2, !.bm = bm2, !.bi = st.bi + 1]

\* Lines 285-287: mappings of different length are unequal.
DictEqStart ==
    /\ deq.pc = "start"
    /\ deq' = IF Len(deq.a) # Len(deq.b)
              THEN [deq EXCEPT !.pc = "done", !.ret = FALSE]
              ELSE [deq EXCEPT !.pc = "loop"]

\* Lines 296-317: one iteration of the loop.
DictEqStep ==
    /\ deq.pc = "loop"
    /\ deq.bi <= Len(deq.a)
    /\ deq' = DictEqLoopBody(deq)

\* Line 318: the loop is exhausted.
DictEqReturn ==
    /\ deq.pc = "loop"
    /\ deq.bi > Len(deq.a)
    /\ deq' = [deq EXCEPT !.pc = "done",
                          !.ret = (DictLen(deq.am) + DictLen(deq.bm) = 0)]

DictEqIdle == [a |-> <<>>, b |-> <<>>, bi |-> 1, am |-> EmptyDict,
               bm |-> EmptyDict, pc |-> "idle", ret |-> FALSE]

NoCall == [op |-> "none", inst |-> 0, key |-> <<>>, exc |-> "none", val |-> <<>>, ttl |-> 0]

InitEq ==
    /\ \E x \in ItemSeqs, y \in ItemSeqs :
          deq = [a |-> x, b |-> y, bi |-> 1, am |-> EmptyDict, bm |-> EmptyDict,
                 pc |-> "start", ret |-> FALSE]
    /\ store = <<>>
    /\ now = 0
    /\ last = NoCall
    /\ ref = <<>>
    /\ owner = <<>>
    /\ pcs = <<>>

NextEq ==
    /\ DictEqStart \/ DictEqStep \/ DictEqReturn
    /\ UNCHANGED <<store, now, last, ref, owner, pcs>>

SpecEq == InitEq /\ [][NextEq]_vars

(***************************************************************************)
(* Python values.  A scalar is a pair <<type, payload>>; a value handed to *)
(* a collection is a record of its kind and content.                       *)
(***************************************************************************)
PyTrue == <<"bool", "True">>

PyOne == <<"int", "1">>

PyA == <<"str", "a">>

PyFloat == <<"float", "42.1">>

PyThree == <<"str", "three">>

PyZero == <<"int", "0">>

PyNone == <<"NoneType", "None">>

\* A value without __hash__: the list ['nohash'].
PyNoHash == <<"list", "nohash">>

PyTypes == {"bool", "int", "str", "float", "NoneType", "list"}

\* item.__hash__() raises TypeError for the mutable built-in types.
Hashable(x) == x[1] \notin {"list", "set", "dict"}

\* Whether item.__hash__() is falsy: hash(0) and hash(False) are 0.
HashIsZero(x) == x[2] \in {"0", "False"}

Scalar(x) == [kind |-> "scalar", val |-> x]

PyList(xs) == [kind |-> "list", val |-> xs]

PySet(xs) == [kind |-> "set", val |-> xs]

PyDict(d) == [kind |-> "dict", val |-> d]

NoValue == [kind |-> "none", val |-> <<>>]

\* The names of dir(value) that ObjectRedis.set looks for (lines 108-136).
Dir(value) ==
    CASE value.kind = "list" -> {"__imul__", "__iter__", "__getitem__", "index"}
      [] value.kind = "set" -> {"__xor__", "__iter__"}
      [] value.kind = "dict" -> {"__getitem__", "__iter__", "values"}
      [] value.kind = "scalar" /\ value.val[1] = "str" ->
             {"__getitem__", "__iter__", "index"}
      [] value.kind = "scalar" /\ value.val[1] \in {"int", "bool"} -> {"__xor__"}
      [] OTHER -> {}

(***************************************************************************)
(* The pluggable codecs: byte strings are sequences of tokens.             *)
(* pickle frames an object between a protocol header and a STOP opcode and *)
(* its loads stops reading at STOP; json has no frame and rejects anything *)
(* but one whole document.                                                 *)
(***************************************************************************)
Codecs == {"pickle", "json"}

Dumps(codec, x) ==
    IF codec = "pickle" THEN <<"PROTO", x[1], x[2], "STOP">>
    ELSE <<"J", x[1], x[2]>>

LoadFailed == [ok |-> FALSE, obj |-> <<>>]

Loads(codec, bytes) ==
    IF codec = "pickle"
    THEN IF /\ Len(bytes) >= 4
            /\ bytes[1] = "PROTO"
            /\ bytes[2] \in PyTypes
            /\ bytes[4] = "STOP"
         THEN [ok |-> TRUE, obj |-> <<bytes[2], bytes[3]>>]
         ELSE LoadFailed
    ELSE IF Len(bytes) = 3 /\ bytes[1] = "J" /\ bytes[2] \in PyTypes
         THEN [ok |-> TRUE, obj |-> <<bytes[2], bytes[3]>>]
         ELSE LoadFailed

StartsWith(bytes, prefix) ==
    /\ Len(bytes) >= Len(prefix)
    /\ SubSeq(bytes, 1, Len(prefix)) = prefix

(***************************************************************************)
(* The remote store, by the commands the wrappers send.  A key holds a     *)
(* typed value and an expiry time (NoExpiry when it has none).  A command  *)
(* yields the store it leaves and its reply.                               *)
(***************************************************************************)
NoExpiry == 0

Nil == [nil |-> TRUE, val |-> <<>>]

Some(v) == [nil |-> FALSE, val |-> v]

Entry(t, v, e) == [type |-> t, val |-> v, exp |-> e]

Reply(s, r, e) == [store |-> s, reply |-> r, err |-> e]

StorePut(s, k, e) == [x \in DOMAIN s \cup {k} |-> IF x = k THEN e ELSE s[x]]

StoreDrop(s, k) == [x \in DOMAIN s \ {k} |-> s[x]]

\* What is left of the store at time t: expired keys are gone.
Live(s, t) ==
    [x \in {k \in DOMAIN s : s[k].exp = NoExpiry \/ s[k].exp > t} |-> s[x]]

R_type(s, k) == IF k \in DOMAIN s THEN s[k].type ELSE "none"

R_exists(s, k) == k \in DOMAIN s

R_get(s, k) == IF k \in DOMAIN s /\ s[k].type = "string" THEN Some(s[k].val) ELSE Nil

R_set(s, k, v) == StorePut(s, k, Entry("string", v, NoExpiry))

R_setex(s, t, k, ttl, v) == StorePut(s, k, Entry("string", v, t + ttl))

R_delete(s, k) ==
    IF k \in DOMAIN s THEN Reply(StoreDrop(s, k), 1, "none") ELSE Reply(s, 0, "none")

R_expire(s, t, k, ttl) ==
    IF k \in DOMAIN s THEN StorePut(s, k, [s[k] EXCEPT !.exp = t + ttl]) ELSE s

\* Remaining time to live: -2 for no key, -1 for no expiry.
R_ttl(s, t, k) ==
    IF k \notin DOMAIN s THEN -2
    ELSE IF s[k].exp = NoExpiry THEN -1 ELSE s[k].exp - t

\* SCAN with MATCH prefix*: the keys, in no particular order.
R_scan(s, hasMatch, prefix) ==
    {k \in DOMAIN s : hasMatch => StartsWith(k, prefix)}

R_rpush(s, k, vals) ==
    IF Len(vals) = 0 THEN Reply(s, 0, "ResponseError")
    ELSE IF k \notin DOMAIN s
    THEN Reply(StorePut(s, k, Entry("list", vals, NoExpiry)), Len(vals), "none")
    ELSE IF s[k].type # "list" THEN Reply(s, 0, "ResponseError")
    ELSE Reply(StorePut(s, k, [s[k] EXCEPT !.val = @ \o vals]),
               Len(s[k].val) + Len(vals), "none")

R_llen(s, k) == IF k \in DOMAIN s /\ s[k].type = "list" THEN Len(s[k].val) ELSE 0

R_sadd(s, k, vals) ==
    IF vals = {} THEN Reply(s, 0, "ResponseError")
    ELSE IF k \notin DOMAIN s
    THEN Reply(StorePut(s, k, Entry("set", vals, NoExpiry)), Cardinality(vals), "none")
    ELSE IF s[k].type # "set" THEN Reply(s, 0, "ResponseError")
    ELSE Reply(StorePut(s, k, [s[k] EXCEPT !.val = @ \cup vals]),
               Cardinality(vals \ s[k].val), "none")

R_smembers(s, k) == IF k \in DOMAIN s /\ s[k].type = "set" THEN s[k].val ELSE {}

R_scard(s, k) == Cardinality(R_smembers(s, k))

R_sismember(s, k, v) == v \in R_smembers(s, k)

\* SREM of one member: a set that becomes empty is removed with its key.
R_srem(s, k, v) ==
    IF v \notin R_smembers(s, k) THEN Reply(s, 0, "none")
    ELSE IF s[k].val = {v} THEN Reply(StoreDrop(s, k), 1, "none")
    ELSE Reply(StorePut(s, k, [s[k] EXCEPT !.val = @ \ {v}]), 1, "none")

R_hset(s, k, f, v) ==
    IF k \notin DOMAIN s
    THEN Reply(StorePut(s, k, Entry("hash", DictPut(EmptyDict, f, v), NoExpiry)), 1, "none")
    ELSE IF s[k].type # "hash" THEN Reply(s, 0, "ResponseError")
    ELSE Reply(StorePut(s, k, [s[k] EXCEPT !.val = DictPut(@, f, v)]),
               IF f \in DOMAIN s[k].val THEN 0 ELSE 1, "none")

R_hget(s, k, f) ==
    IF k \in DOMAIN s /\ s[k].type = "hash" /\ f \in DOMAIN s[k].val
    THEN Some(s[k].val[f]) ELSE Nil

R_hgetall(s, k) == IF k \in DOMAIN s /\ s[k].type = "hash" THEN s[k].val ELSE EmptyDict

R_hlen(s, k) == DictLen(R_hgetall(s, k))

\* HDEL of one field: a hash that becomes empty is removed with its key.
R_hdel(s, k, f) ==
    IF f \notin DOMAIN R_hgetall(s, k) THEN Reply(s, 0, "none")
    ELSE IF DOMAIN s[k].val = {f} THEN Reply(StoreDrop(s, k), 1, "none")
    ELSE Reply(StorePut(s, k, [s[k] EXCEPT !.val = DictDel(@, f)]), 1, "none")

(***************************************************************************)
(* The list commands of the store.  An index counts from the head when it  *)
(* is >= 0 and from the tail when it is negative; a list that becomes      *)
(* empty is removed with its key.                                          *)
(***************************************************************************)
ListAt(s, k) == IF k \in DOMAIN s /\ s[k].type = "list" THEN s[k].val ELSE <<>>

\* The 1-based position an index addresses, 0 when it addresses nothing.
Pos(xs, index) ==
    LET p == IF index >= 0 THEN index + 1 ELSE Len(xs) + index + 1
    IN  IF p >= 1 /\ p <= Len(xs) THEN p ELSE 0

StoreList(s, k, xs) ==
    IF Len(xs) = 0 THEN StoreDrop(s, k)
    ELSE StorePut(s, k, Entry("list", xs, IF k \in DOMAIN s THEN s[k].exp ELSE NoExpiry))

R_lindex(s, k, index) ==
    LET xs == ListAt(s, k)
    IN  IF Pos(xs, index) = 0 THEN Nil ELSE Some(xs[Pos(xs, index)])

R_lset(s, k, index, v) ==
    LET xs == ListAt(s, k)
    IN  IF Pos(xs, index) = 0 THEN Reply(s, 0, "ResponseError")
        ELSE Reply(StoreList(s, k, [xs EXCEPT ![Pos(xs, index)] = v]), 1, "none")

\* LRANGE start stop: both ends inclusive, clamped to the list.
R_lrange(s, k, start, stop) ==
    LET xs == ListAt(s, k)
        n == Len(xs)
        lo0 == IF start >= 0 THEN start ELSE n + start
        hi0 == IF stop >= 0 THEN stop ELSE n + stop
        lo == IF lo0 < 0 THEN 0 ELSE lo0
        hi == IF hi0 >= n THEN n - 1 ELSE hi0
    IN  IF lo > hi \/ lo >= n THEN <<>> ELSE SubSeq(xs, lo + 1, hi + 1)

FirstIndex(xs, v) ==
    IF \E i \in 1..Len(xs) : xs[i] = v
    THEN CHOOSE i \in 1..Len(xs) : xs[i] = v /\ \A j \in 1..(i - 1) : xs[j] # v
    ELSE 0

RemoveAt(xs, p) == SubSeq(xs, 1, p - 1) \o SubSeq(xs, p + 1, Len(xs))

InsertAt(xs, p, v) == SubSeq(xs, 1, p - 1) \o <<v>> \o SubSeq(xs, p, Len(xs))

\* LINSERT BEFORE|AFTER pivot: at the first element equal to the pivot.
R_linsert(s, k, where, pivot, v) ==
    LET xs == ListAt(s, k)
        p == FirstIndex(xs, pivot)
    IN  IF p = 0 THEN Reply(s, IF Len(xs) = 0 THEN 0 ELSE -1, "none")
        ELSE Reply(StoreList(s, k, InsertAt(xs, IF where = "BEFORE" THEN p ELSE p + 1, v)),
                   Len(xs) + 1, "none")

\* LREM with count 1: the first element equal to v, from the head.
R_lrem1(s, k, v) ==
    LET xs == ListAt(s, k)
        p == FirstIndex(xs, v)
    IN  IF p = 0 THEN Reply(s, 0, "none")
        ELSE Reply(StoreList(s, k, RemoveAt(xs, p)), 1, "none")

R_lpop(s, k) ==
    LET xs == ListAt(s, k)
    IN  IF Len(xs) = 0 THEN Reply(s, Nil, "none")
        ELSE Reply(StoreList(s, k, Tail(xs)), Some(Head(xs)), "none")

R_rpop(s, k) ==
    LET xs == ListAt(s, k)
    IN  IF Len(xs) = 0 THEN Reply(s, Nil, "none")
        ELSE Reply(StoreList(s, k, SubSeq(xs, 1, Len(xs) - 1)), Some(xs[Len(xs)]), "none")

(***************************************************************************)
(* The sorted-set commands of the store.  A sorted set maps each member to *)
(* its score; its order is by score and, for equal scores, by the bytes of *)
(* the member.  A sorted set that becomes empty is removed with its key.   *)
(***************************************************************************)
R_zset(s, k) == IF k \in DOMAIN s /\ s[k].type = "zset" THEN s[k].val ELSE EmptyDict

\* The order of the byte tokens that members differ in.
ByteOrder == <<"bool", "int", "str", "0", "1", "a", "three", "True">>

ByteRank(tok) ==
    IF \E i \in 1..Len(ByteOrder) : ByteOrder[i] = tok
    THEN CHOOSE i \in 1..Len(ByteOrder) : ByteOrder[i] = tok
    ELSE 0

\* Whether member a sorts before member b: the first token that differs.
BytesLess(a, b) ==
    \E i \in 1..Len(a) :
        /\ i <= Len(b)
        /\ \A j \in 1..(i - 1) : a[j] = b[j]
        /\ a[i] # b[i]
        /\ ByteRank(a[i]) < ByteRank(b[i])

\* ZADD score member [score member ...]: m maps the members to the scores.
R_zadd(s, k, m) ==
    IF DOMAIN m = {} THEN Reply(s, 0, "ResponseError")
    ELSE IF k \notin DOMAIN s
    THEN Reply(StorePut(s, k, Entry("zset", m, NoExpiry)), DictLen(m), "none")
    ELSE IF s[k].type # "zset" THEN Reply(s, 0, "ResponseError")
    ELSE Reply(StorePut(s, k, [s[k] EXCEPT !.val =
                   [x \in DOMAIN @ \cup DOMAIN m |-> IF x \in DOMAIN m THEN m[x] ELSE @[x]]]),
               Cardinality(DOMAIN m \ DOMAIN s[k].val), "none")

R_zscore(s, k, mem) == IF mem \in DOMAIN R_zset(s, k) THEN Some(R_zset(s, k)[mem]) ELSE Nil

R_zcard(s, k) == DictLen(R_zset(s, k))

R_zrem(s, k, mem) ==
    IF mem \notin DOMAIN R_zset(s, k) THEN Reply(s, 0, "none")
    ELSE IF DOMAIN s[k].val = {mem} THEN Reply(StoreDrop(s, k), 1, "none")
    ELSE Reply(StorePut(s, k, [s[k] EXCEPT !.val = DictDel(@, mem)]), 1, "none")

\* ZRANK: how many members stand before mem in the order of the set.
R_zrank(s, k, mem) ==
    LET z == R_zset(s, k)
    IN  IF mem \notin DOMAIN z THEN Nil
        ELSE Some(Cardinality({x \in DOMAIN z :
                      \/ z[x] < z[mem]
                      \/ z[x] = z[mem] /\ BytesLess(x, mem)}))

\* ZREMRANGEBYSCORE -inf max: every member with score <= max goes.
R_zremrangebyscore(s, k, max) ==
    LET z == R_zset(s, k)
        keep == {x \in DOMAIN z : z[x] > max}
    IN  IF DOMAIN z = {} THEN s
        ELSE IF keep = {} THEN StoreDrop(s, k)
        ELSE StorePut(s, k, [s[k] EXCEPT !.val = [x \in keep |-> z[x]]])

\* ZSCAN yields every member once, in an order the store chooses: a full
\* scan promises no order.
R_zscan(s, k) ==
    LET z == R_zset(s, k)
        n == DictLen(z)
    IN  {o \in [1..n -> DOMAIN z] : \A i, j \in 1..n : i # j => o[i] # o[j]}

(***************************************************************************)
(* What a call of a wrapper method yields: the store it leaves, the value  *)
(* it returns and the exception it raises ("none" when it returns).        *)
(***************************************************************************)
Res(s, r, e) == [store |-> s, ret |-> r, exc |-> e]

DumpsAll(codec, xs) == [i \in 1..Len(xs) |-> Dumps(codec, xs[i])]

LoadsAll(codec, bs) == [i \in 1..Len(bs) |-> Loads(codec, bs[i]).obj]

AllLoad(codec, bs) == \A i \in 1..Len(bs) : Loads(codec, bs[i]).ok

Reverse(xs) == [i \in 1..Len(xs) |-> xs[Len(xs) + 1 - i]]

(***************************************************************************)
(* RedisList: collections.py 321-473.                                      *)
(***************************************************************************)
RedisList(name, serializer) == [name |-> name, serializer |-> serializer]

\* _token(): 32 random characters (lines 261-266), one token here.
TokenChars == {"rnd1", "rnd2"}

DeletingToken(t) == <<"-=-DELETING-=-", t>>

InsertingToken(t) == <<"-=-INSERTING-=-", t>>

PopToken(t) == <<t>>

RL_len(rl, s) == R_llen(s, rl.name)

RL_getitem(rl, s, index) ==
    LET rval == R_lindex(s, rl.name, index)
    IN  IF rval.nil THEN Res(s, NoValue, "IndexError")
        ELSE IF ~Loads(rl.serializer, rval.val).ok THEN Res(s, NoValue, "LoadError")
        ELSE Res(s, Scalar(Loads(rl.serializer, rval.val).obj), "none")

RL_setitem(rl, s, index, value) ==
    LET r == R_lset(s, rl.name, index, Dumps(rl.serializer, value))
    IN  Res(r.store, NoValue, r.err)

RL_append(rl, s, value) ==
    LET r == R_rpush(s, rl.name, <<Dumps(rl.serializer, value)>>)
    IN  Res(r.store, NoValue, r.err)

RL_extend(rl, s, values) ==
    LET r == R_rpush(s, rl.name, DumpsAll(rl.serializer, values))
    IN  Res(r.store, NoValue, r.err)

\* A faulty variant of clear that sends nothing to the store.
RL_clear_Keeps(rl, s) == Res(s, NoValue, "none")

\* clear (400-401).
RL_clear(rl, s) == Res(R_delete(s, rl.name).store, NoValue, "none")

\* A faulty variant of __iter__: the range starts at 1.
RL_iter_FromOne(rl, s) ==
    LET raw == R_lrange(s, rl.name, 1, RL_len(rl, s))
    IN  IF AllLoad(rl.serializer, raw)
        THEN Res(s, PyList(LoadsAll(rl.serializer, raw)), "none")
        ELSE Res(s, NoValue, "LoadError")

\* __iter__ (434-436): LRANGE 0 len.
RL_iter(rl, s) ==
    LET raw == R_lrange(s, rl.name, 0, RL_len(rl, s))
    IN  IF AllLoad(rl.serializer, raw)
        THEN Res(s, PyList(LoadsAll(rl.serializer, raw)), "none")
        ELSE Res(s, NoValue, "LoadError")

RL_reversed(rl, s) ==
    LET r == RL_iter(rl, s)
    IN  IF r.exc = "none" THEN Res(s, PyList(Reverse(r.ret.val)), "none") ELSE r

\* A faulty variant of __insert: the value goes after the token and the former
\* element before it.
RL_insert_After(rl, s, index, value, t) ==
    LET bval == Dumps(rl.serializer, value)
    IN  IF index >= R_llen(s, rl.name)
        THEN Res(R_rpush(s, rl.name, <<bval>>).store, NoValue, "none")
        ELSE
          LET current == R_lindex(s, rl.name, index)
              token == InsertingToken(t)
              s1 == R_lset(s, rl.name, index, token)
          IN  IF s1.err # "none" THEN Res(s, NoValue, s1.err)
              ELSE
                LET s2 == R_linsert(s1.store, rl.name, "AFTER", token, bval)
                    s3 == R_linsert(s2.store, rl.name, "BEFORE", token, current.val)
                    s4 == R_lrem1(s3.store, rl.name, token)
                IN  Res(s4.store, NoValue, "none")

\* __insert (377-387), run by insert (389-391) through redis.transaction:
\* the pipeline is watching, so every command is sent as it is issued.
RL_insert(rl, s, index, value, t) ==
    LET bval == Dumps(rl.serializer, value)
    IN  IF index >= R_llen(s, rl.name)
        THEN Res(R_rpush(s, rl.name, <<bval>>).store, NoValue, "none")
        ELSE
          LET current == R_lindex(s, rl.name, index)
              token == InsertingToken(t)
              s1 == R_lset(s, rl.name, index, token)
          IN  IF s1.err # "none" THEN Res(s, NoValue, s1.err)
              ELSE
                LET s2 == R_linsert(s1.store, rl.name, "BEFORE", token, bval)
                    s3 == R_linsert(s2.store, rl.name, "AFTER", token, current.val)
                    s4 == R_lrem1(s3.store, rl.name, token)
                IN  Res(s4.store, NoValue, "none")

\* A faulty variant of __pop: the token is written and not removed.
RL_pop_at_KeepsToken(rl, s, index, t) ==
    LET bval == R_lindex(s, rl.name, index)
    IN  IF bval.nil THEN Res(s, Nil, "IndexError")
        ELSE Res(R_lset(s, rl.name, index, PopToken(t)).store, bval, "none")

\* __pop (407-415).
RL_pop_at(rl, s, index, t) ==
    LET bval == R_lindex(s, rl.name, index)
    IN  IF bval.nil THEN Res(s, Nil, "IndexError")
        ELSE
          LET token == PopToken(t)
              s1 == R_lset(s, rl.name, index, token)
              s2 == R_lrem1(s1.store, rl.name, token)
          IN  Res(s2.store, bval, "none")

\* pop (417-432).
RL_pop(rl, s, index, t) ==
    LET r == IF index = -1
             THEN LET p == R_rpop(s, rl.name) IN Res(p.store, p.reply, "none")
             ELSE IF index = 0
             THEN LET p == R_lpop(s, rl.name) IN Res(p.store, p.reply, "none")
             ELSE RL_pop_at(rl, s, index, t)
    IN  IF r.exc # "none" THEN Res(r.store, NoValue, r.exc)
        ELSE IF r.ret.nil THEN Res(r.store, NoValue, "IndexError")
        ELSE IF ~Loads(rl.serializer, r.ret.val).ok THEN Res(r.store, NoValue, "LoadError")
        ELSE Res(r.store, Scalar(Loads(rl.serializer, r.ret.val).obj), "none")

\* What index, len and `in` return.
PyInt(n) == [kind |-> "int", val |-> n]

PyBool(b) == [kind |-> "bool", val |-> b]

\* A faulty variant of __delitem__: the element is removed by its value.
RL_delitem_ByValue(rl, s, index, t) ==
    LET cur == R_lindex(s, rl.name, index)
    IN  IF cur.nil THEN Res(s, NoValue, "ResponseError")
        ELSE Res(R_lrem1(s, rl.name, cur.val).store, NoValue, "none")

\* __delitem__ (361-368): LSET token and LREM 1 token queued on one
\* pipeline; execute() runs both and raises the error of the first.
RL_delitem(rl, s, index, t) ==
    LET token == DeletingToken(t)
        s1 == R_lset(s, rl.name, index, token)
        s2 == R_lrem1(s1.store, rl.name, token)
    IN  Res(s2.store, NoValue, s1.err)

\* A faulty variant of remove: the reply of LREM is not looked at.
RL_remove_NoRaise(rl, s, value) ==
    Res(R_lrem1(s, rl.name, Dumps(rl.serializer, value)).store, NoValue, "none")

\* remove (403-405).
RL_remove(rl, s, value) ==
    LET r == R_lrem1(s, rl.name, Dumps(rl.serializer, value))
    IN  IF r.reply = 0 THEN Res(r.store, NoValue, "ValueError")
        ELSE Res(r.store, NoValue, "none")

\* A faulty variant of __index: the count starts at 1.
RL_index_FromOne(rl, s, value, start, stop) ==
    LET stp == IF stop.nil THEN R_llen(s, rl.name) ELSE stop.val
        bi == Dumps(rl.serializer, value)
        p == FirstIndex(R_lrange(s, rl.name, start, stp), bi)
    IN  IF p = 0 THEN Res(s, NoValue, "ValueError") ELSE Res(s, PyInt(p), "none")

\* __index (451-460) under index (462-470): ix counts the elements of
\* LRANGE start stop from 0; stop is Nil for None.
RL_index(rl, s, value, start, stop) ==
    LET stp == IF stop.nil THEN R_llen(s, rl.name) ELSE stop.val
        bi == Dumps(rl.serializer, value)
        p == FirstIndex(R_lrange(s, rl.name, start, stp), bi)
    IN  IF p = 0 THEN Res(s, NoValue, "ValueError") ELSE Res(s, PyInt(p - 1), "none")

\* __contains__ (438-442).
RL_contains(rl, s, item) ==
    LET r == RL_index(rl, s, item, 0, Nil)
    IN  IF r.exc = "ValueError" THEN Res(r.store, PyBool(FALSE), "none")
        ELSE Res(r.store, PyBool(TRUE), r.exc)

(***************************************************************************)
(* RedisSet: collections.py 476-530.                                       *)
(***************************************************************************)
RedisSet(name, serializer) == [name |-> name, serializer |-> serializer]

RS_clear(rs, s) == Res(R_delete(s, rs.name).store, NoValue, "none")

\* The items of update(*others): those of every iterable handed in.
ItemsOf(others) == UNION {others[i] : i \in 1..Len(others)}

\* A faulty variant of update: without `or True`, an item whose hash is 0
\* is replaced by that hash.
RS_update_HashOnly(rs, s, others) ==
    LET items == ItemsOf(others)
        new_data == {IF ~HashIsZero(x) THEN Dumps(rs.serializer, x) ELSE <<"0">> :
                        x \in items}
    IN  IF \E x \in items : ~Hashable(x) THEN Res(s, NoValue, "TypeError")
        ELSE IF new_data # {}
        THEN LET r == R_sadd(s, rs.name, new_data) IN Res(r.store, NoValue, r.err)
        ELSE Res(s, NoValue, "none")

\* A faulty variant of update: each item is sent as soon as it is
\* serialized, so the items before an unhashable one are added.
RS_update_ItemByItem(rs, s, others) ==
    LET items == ItemsOf(others)
        new_data == {Dumps(rs.serializer, x) : x \in {y \in items : Hashable(y)}}
    IN  IF new_data # {}
        THEN LET r == R_sadd(s, rs.name, new_data)
             IN  Res(r.store, NoValue,
                     IF \E x \in items : ~Hashable(x) THEN "TypeError" ELSE r.err)
        ELSE Res(s, NoValue, IF \E x \in items : ~Hashable(x) THEN "TypeError" ELSE "none")

\* update (504-514): new_data is built from every item of every iterable,
\* (item.__hash__() or True) and dumps(item), before anything is sent; and
\* nothing is sent for no items.
RS_update(rs, s, others) ==
    LET items == ItemsOf(others)
        new_data == {IF ~HashIsZero(x) \/ TRUE THEN Dumps(rs.serializer, x) ELSE <<"0">> :
                        x \in items}
    IN  IF \E x \in items : ~Hashable(x) THEN Res(s, NoValue, "TypeError")
        ELSE IF new_data # {}
        THEN LET r == R_sadd(s, rs.name, new_data) IN Res(r.store, NoValue, r.err)
        ELSE Res(s, NoValue, "none")

\* add (516-521).
RS_add(rs, s, item) == RS_update(rs, s, <<{item}>>)

\* discard (523-524).
\* A faulty variant of discard that sends nothing to the store.
RS_discard_Local(rs, s, item) == Res(s, NoValue, "none")

RS_discard(rs, s, item) ==
    Res(R_srem(s, rs.name, Dumps(rs.serializer, item)).store, NoValue, "none")

\* __len__ (498-499).
RS_len(rs, s) == R_scard(s, rs.name)

\* __contains__ (501-502).
RS_contains(rs, s, item) == R_sismember(s, rs.name, Dumps(rs.serializer, item))

RS_iter(rs, s) ==
    LET raw == R_smembers(s, rs.name)
    IN  IF \A b \in raw : Loads(rs.serializer, b).ok
        THEN Res(s, PySet({Loads(rs.serializer, b).obj : b \in raw}), "none")
        ELSE Res(s, NoValue, "LoadError")

(***************************************************************************)
(* RedisDict: collections.py 533-593.                                      *)
(***************************************************************************)
RedisDict(name, serializer, key_serializer) ==
    [name |-> name, serializer |-> serializer, key_serializer |-> key_serializer]

RD_clear(rd, s) == Res(R_delete(s, rd.name).store, NoValue, "none")

\* __setitem__ (560-563): item.__hash__() comes before the command.
RD_setitem(rd, s, item, value) ==
    IF ~Hashable(item) THEN Res(s, NoValue, "TypeError")
    ELSE LET r == R_hset(s, rd.name, Dumps(rd.key_serializer, item),
                         Dumps(rd.serializer, value))
         IN  Res(r.store, NoValue, r.err)

\* MutableMapping.update: one __setitem__ per key of the argument.
RECURSIVE RD_update(_, _, _)
RD_update(rd, s, m) ==
    IF DOMAIN m = {} THEN Res(s, NoValue, "none")
    ELSE LET k == CHOOSE x \in DOMAIN m : TRUE
             r == RD_setitem(rd, s, k, m[k])
         IN  IF r.exc # "none" THEN r ELSE RD_update(rd, r.store, DictDel(m, k))

RD_getitem(rd, s, item) ==
    LET val == R_hget(s, rd.name, Dumps(rd.key_serializer, item))
    IN  IF val.nil THEN Res(s, NoValue, "KeyError")
        ELSE IF ~Loads(rd.serializer, val.val).ok THEN Res(s, NoValue, "LoadError")
        ELSE Res(s, Scalar(Loads(rd.serializer, val.val).obj), "none")

\* A faulty variant of __delitem__: the reply of HDEL is not looked at.
RD_delitem_NoRaise(rd, s, item) ==
    Res(R_hdel(s, rd.name, Dumps(rd.key_serializer, item)).store, NoValue, "none")

\* __delitem__ (565-567).
RD_delitem(rd, s, item) ==
    LET r == R_hdel(s, rd.name, Dumps(rd.key_serializer, item))
    IN  IF r.reply = 0 THEN Res(r.store, NoValue, "KeyError")
        ELSE Res(r.store, NoValue, "none")

\* __len__ (573-574).
RD_len(rd, s) == R_hlen(s, rd.name)

\* __iter__ (569-571), and keys() over it: the fields, as a set.
RD_iter(rd, s) ==
    LET raw == DOMAIN R_hgetall(s, rd.name)
    IN  IF \A f \in raw : Loads(rd.key_serializer, f).ok
        THEN Res(s, PySet({Loads(rd.key_serializer, f).obj : f \in raw}), "none")
        ELSE Res(s, NoValue, "LoadError")

\* values(): Mapping.values reads self[key] for every key of __iter__; the
\* result counts how often each value comes.
RD_values(rd, s) ==
    LET ks == RD_iter(rd, s)
    IN  IF ks.exc # "none" THEN ks
        ELSE IF \E k \in ks.ret.val : RD_getitem(rd, s, k).exc # "none"
        THEN Res(s, NoValue, "KeyError")
        ELSE LET vs == {RD_getitem(rd, s, k).ret.val : k \in ks.ret.val}
             IN  Res(s, [kind |-> "bag",
                         val |-> [v \in vs |->
                                    Cardinality({k \in ks.ret.val :
                                                   RD_getitem(rd, s, k).ret.val = v})]],
                     "none")

\* items (582-584), collected into a dict.
RD_items(rd, s) ==
    LET raw == R_hgetall(s, rd.name)
    IN  IF \A f \in DOMAIN raw :
              Loads(rd.key_serializer, f).ok /\ Loads(rd.serializer, raw[f]).ok
        THEN Res(s, PyDict([k \in {Loads(rd.key_serializer, f).obj : f \in DOMAIN raw} |->
                     Loads(rd.serializer,
                           raw[CHOOSE f \in DOMAIN raw :
                                   Loads(rd.key_serializer, f).obj = k]).obj]),
                 "none")
        ELSE Res(s, NoValue, "LoadError")

(***************************************************************************)
(* RedisSortedSet: collections.py 596-686.  A score handed in is a number  *)
(* or something that is none.                                              *)
(***************************************************************************)
RedisSortedSet(name, serializer) == [name |-> name, serializer |-> serializer]

PyNum(n) == [num |-> TRUE, val |-> n]

\* The score 'baz' of test_sorted.
PyBaz == [num |-> FALSE, val |-> 0]

\* __contains__ (616-619).
RZ_contains(rz, s, item) == ~R_zscore(s, rz.name, Dumps(rz.serializer, item)).nil

\* items (621-624): the pairs of ZSCAN, in the order scan yields them.
RZ_items(rz, s, scan) ==
    IF \A i \in 1..Len(scan) : Loads(rz.serializer, scan[i]).ok
    THEN Res(s, PyList([i \in 1..Len(scan) |->
                          <<Loads(rz.serializer, scan[i]).obj, R_zset(s, rz.name)[scan[i]]>>]),
             "none")
    ELSE Res(s, NoValue, "LoadError")

\* __iter__ (629-632): the keys of ZSCAN, in the order scan yields them.
RZ_iter(rz, s, scan) ==
    IF \A i \in 1..Len(scan) : Loads(rz.serializer, scan[i]).ok
    THEN Res(s, PyList([i \in 1..Len(scan) |-> Loads(rz.serializer, scan[i]).obj]), "none")
    ELSE Res(s, NoValue, "LoadError")

\* __len__ (634-636).
RZ_len(rz, s) == R_zcard(s, rz.name)

\* __getitem__ (638-643).
RZ_getitem(rz, s, key) ==
    LET rval == R_zscore(s, rz.name, Dumps(rz.serializer, key))
    IN  IF rval.nil THEN Res(s, NoValue, "KeyError") ELSE Res(s, PyInt(rval.val), "none")

\* A faulty variant of __setitem__: a score that is there is kept.
RZ_setitem_KeepsOld(rz, s, key, value) ==
    IF ~Hashable(key) THEN Res(s, NoValue, "TypeError")
    ELSE IF ~value.num THEN Res(s, NoValue, "TypeError")
    ELSE IF RZ_contains(rz, s, key) THEN Res(s, NoValue, "none")
    ELSE LET r == R_zadd(s, rz.name,
                         DictPut(EmptyDict, Dumps(rz.serializer, key), value.val))
         IN  Res(r.store, NoValue, r.err)

\* __setitem__ (645-648): key.__hash__() and value + 0.0 come before the
\* command.
RZ_setitem(rz, s, key, value) ==
    IF ~Hashable(key) THEN Res(s, NoValue, "TypeError")
    ELSE IF ~value.num THEN Res(s, NoValue, "TypeError")
    ELSE LET r == R_zadd(s, rz.name,
                         DictPut(EmptyDict, Dumps(rz.serializer, key), value.val))
         IN  Res(r.store, NoValue, r.err)

\* index (657-666).
RZ_index(rz, s, value) ==
    LET rval == R_zrank(s, rz.name, Dumps(rz.serializer, value))
    IN  IF ~rval.nil THEN Res(s, PyInt(rval.val), "none")
        ELSE Res(s, NoValue, "ValueError")

\* __delitem__ (668-670).
RZ_delitem(rz, s, value) ==
    LET r == R_zrem(s, rz.name, Dumps(rz.serializer, value))
    IN  IF r.reply = 0 THEN Res(r.store, NoValue, "KeyError")
        ELSE Res(r.store, NoValue, "none")

\* update (672-680): v + 0 for every item of the dict, then one ZADD.
RZ_update(rz, s, new_stuff) ==
    IF \E k \in DOMAIN new_stuff : ~new_stuff[k].num THEN Res(s, NoValue, "TypeError")
    ELSE LET r == R_zadd(s, rz.name,
                         [b \in {Dumps(rz.serializer, k) : k \in DOMAIN new_stuff} |->
                            new_stuff[CHOOSE k \in DOMAIN new_stuff :
                                        Dumps(rz.serializer, k) = b].val])
         IN  Res(r.store, NoValue, r.err)

\* clear (682-683).
RZ_clear(rz, s) == Res(R_delete(s, rz.name).store, NoValue, "none")

(***************************************************************************)
(* RedisTTLSet: ttl.py 45-135.  The set keeps its items in a               *)
(* RedisSortedSet under the same name, each with its expiry time as score; *)
(* t is what self.time() returns.                                          *)
(***************************************************************************)
RedisTTLSet(name, ttl, serializer) ==
    [name |-> name, ttl |-> ttl, serializer |-> serializer,
     dict |-> RedisSortedSet(name, serializer)]

\* A faulty variant of __cleanup: nothing is removed.
TS_cleanup_Nothing(ts, s, t) == s

\* __cleanup (113-115): ZREMRANGEBYSCORE -inf time().
TS_cleanup(ts, s, t) == R_zremrangebyscore(s, ts.name, t)

\* discard (125-129): KeyError is passed over.
TS_discard(ts, s, item) == Res(RZ_delitem(ts.dict, s, item).store, NoValue, "none")

\* __contains__ (91-102): dict.get is __getitem__ with KeyError turned into
\* None; an expired item is discarded.
TS_contains(ts, s, t, item) ==
    LET expiry == RZ_getitem(ts.dict, s, item)
    IN  IF expiry.exc = "KeyError" THEN Res(s, PyBool(FALSE), "none")
        ELSE IF expiry.ret.val < t
        THEN Res(TS_discard(ts, s, item).store, PyBool(FALSE), "none")
        ELSE Res(s, PyBool(TRUE), "none")

\* The loop of __iter__ (83-89) over the pairs of dict.items().
RECURSIVE TS_iter_loop(_, _, _, _, _, _)
TS_iter_loop(ts, s, t, pairs, i, out) ==
    IF i > Len(pairs) THEN Res(s, PyList(out), "none")
    ELSE IF pairs[i][2] < t
    THEN LET c == TS_contains(ts, s, t, pairs[i][1])
         IN  TS_iter_loop(ts, c.store, t, pairs, i + 1,
                          IF c.ret.val THEN Append(out, pairs[i][1]) ELSE out)
    ELSE TS_iter_loop(ts, s, t, pairs, i + 1, Append(out, pairs[i][1]))

\* __iter__ (76-89): __cleanup, then the loop; scan is the order in which
\* the store yields what is left.
TS_iter(ts, s, t, scan) ==
    LET s1 == TS_cleanup(ts, s, t)
        its == RZ_items(ts.dict, s1, scan)
    IN  IF its.exc # "none" THEN its
        ELSE TS_iter_loop(ts, s1, t, its.ret.val, 1, <<>>)

\* __len__ (104-111).
TS_len(ts, s, t) ==
    LET s1 == TS_cleanup(ts, s, t)
    IN  Res(s1, PyInt(RZ_len(ts.dict, s1)), "none")

\* update (117-120): one expiry for the call; the dict of the items is
\* built before the store is asked, and wants hashable items.
TS_update(ts, s, t, other) ==
    IF \E x \in ItemsOf(other) : ~Hashable(x) THEN Res(s, NoValue, "TypeError")
    ELSE RZ_update(ts.dict, s, [k \in ItemsOf(other) |-> PyNum(t + ts.ttl)])

\* A faulty variant of add: the item expires at once.
TS_add_NoTtl(ts, s, t, item) == RZ_setitem(ts.dict, s, item, PyNum(t))

\* add (122-123).
TS_add(ts, s, t, item) == RZ_setitem(ts.dict, s, item, PyNum(t + ts.ttl))

\* clear (131-132).
TS_clear(ts, s) == RZ_clear(ts.dict, s)

(***************************************************************************)
(* ObjectRedis: collections.py 13-221.                                     *)
(***************************************************************************)
NsNone == [given |-> FALSE, text |-> <<>>]

NsText(text) == [given |-> TRUE, text |-> text]

TtlNone == 0

\* __init__ (43-53): the namespace is encoded and ":::" is appended.
\* missing says whether a missing function was given; missing_ttl is the
\* value the missing_ttl function returns (TtlNone by default).
ObjectRedis(namespace, serializer, key_serializer, missing, missing_ttl) ==
    [hasNamespace |-> namespace.given,
     namespace |-> IF namespace.given THEN namespace.text \o <<":::">> ELSE <<>>,
     serializer |-> serializer,
     key_serializer |-> key_serializer,
     missing |-> missing,
     missing_ttl |-> missing_ttl]

\* A faulty variant of _ns: the namespace is not prepended.
OR_ns_NoPrefix(o, key) == Dumps(o.key_serializer, key)

\* _ns (207-218).
OR_ns(o, key) ==
    IF o.hasNamespace
    THEN o.namespace \o Dumps(o.key_serializer, key)
    ELSE Dumps(o.key_serializer, key)

\* _dns (191-205): ok is FALSE when it raises.
OR_dns(o, rkey) ==
    IF o.hasNamespace
    THEN IF StartsWith(rkey, o.namespace)
         THEN Loads(o.key_serializer, SubSeq(rkey, Len(o.namespace) + 1, Len(rkey)))
         ELSE LoadFailed
    ELSE Loads(o.key_serializer, rkey)

\* The value the configured missing function computes for a key.
MissingValue(key) == Scalar(<<"str", key[2]>>)

\* The commands of new_list, new_set and new_hash (110-135), sent one by
\* one: clear, fill, expire.
OR_new_list(o, s, t, bkey, value, ttl) ==
    LET rl == RedisList(bkey, o.serializer)
        s1 == RL_clear(rl, s)
        s2 == RL_extend(rl, s1.store, value.val)
    IN  IF s2.exc # "none" THEN s2
        ELSE IF ttl # TtlNone THEN Res(R_expire(s2.store, t, bkey, ttl), NoValue, "none")
        ELSE s2

OR_new_set(o, s, t, bkey, value, ttl) ==
    LET rs == RedisSet(bkey, o.serializer)
        s1 == RS_clear(rs, s)
        s2 == RS_update(rs, s1.store, <<value.val>>)
    IN  IF s2.exc # "none" THEN s2
        ELSE IF ttl # TtlNone THEN Res(R_expire(s2.store, t, bkey, ttl), NoValue, "none")
        ELSE s2

OR_new_hash(o, s, t, bkey, value, ttl) ==
    LET rd == RedisDict(bkey, o.serializer, o.serializer)
        s1 == RD_clear(rd, s)
        s2 == RD_update(rd, s1.store, value.val)
    IN  IF s2.exc # "none" THEN s2
        ELSE IF ttl # TtlNone THEN Res(R_expire(s2.store, t, bkey, ttl), NoValue, "none")
        ELSE s2

\* set (98-150).
OR_set(o, s, t, key, value, ttl) ==
    LET bkey == OR_ns(o, key)
        d == Dir(value)
    IN  IF "__imul__" \in d /\ "__iter__" \in d
        THEN OR_new_list(o, s, t, bkey, value, ttl)
        ELSE IF "__xor__" \in d /\ "__iter__" \in d
        THEN OR_new_set(o, s, t, bkey, value, ttl)
        ELSE IF "__getitem__" \in d /\ "index" \notin d
        THEN OR_new_hash(o, s, t, bkey, value, ttl)
        ELSE IF ttl = TtlNone
        THEN Res(R_set(s, bkey, Dumps(o.serializer, value.val)), NoValue, "none")
        ELSE Res(R_setex(s, t, bkey, ttl, Dumps(o.serializer, value.val)), NoValue, "none")

\* __setitem__ (95-96).
OR_setitem(o, s, t, key, value) == OR_set(o, s, t, key, value, TtlNone)

\* A faulty variant of __memoize: the value is stored without its time-to-live.
OR_memoize_NoTtl(o, s, t, key) ==
    IF ~o.missing THEN Res(s, NoValue, "KeyError")
    ELSE LET val == MissingValue(key)
             r == OR_set(o, s, t, key, val, TtlNone)
         IN  IF r.exc # "none" THEN r ELSE Res(r.store, val, "none")

\* A faulty variant of __memoize: the computed value is stored before the default
\* __missing__ raises.
OR_memoize_StoresFirst(o, s, t, key) ==
    LET val == MissingValue(key)
        r == OR_set(o, s, t, key, val, o.missing_ttl)
    IN  IF ~o.missing THEN Res(r.store, NoValue, "KeyError")
        ELSE IF r.exc # "none" THEN r ELSE Res(r.store, val, "none")

\* __memoize (82-85) with __missing__ (87-89) and __missing_ttl__ (91-93).
OR_memoize(o, s, t, key) ==
    IF ~o.missing THEN Res(s, NoValue, "KeyError")
    ELSE LET val == MissingValue(key)
             r == OR_set(o, s, t, key, val, o.missing_ttl)
         IN  IF r.exc # "none" THEN r ELSE Res(r.store, val, "none")

Wrapper(class, name, serializer, key_serializer) ==
    [kind |-> class,
     val |-> [name |-> name, serializer |-> serializer, key_serializer |-> key_serializer]]

\* A faulty variant of __getitem__ after the type query: a string that is gone
\* at the fetch is returned as None.
OR_getitem_typed_None(o, s, t, key, rtype) ==
    LET rkey == OR_ns(o, key)
    IN  IF rtype = "none" THEN OR_memoize(o, s, t, key)
        ELSE IF rtype = "string"
        THEN LET bval == R_get(s, rkey)
             IN  IF ~bval.nil
                 THEN IF Loads(o.serializer, bval.val).ok
                      THEN Res(s, Scalar(Loads(o.serializer, bval.val).obj), "none")
                      ELSE Res(s, NoValue, "LoadError")
                 ELSE Res(s, Scalar(PyNone), "none")
        ELSE IF rtype = "list"
        THEN Res(s, Wrapper("RedisList", rkey, o.serializer, o.serializer), "none")
        ELSE IF rtype = "set"
        THEN Res(s, Wrapper("RedisSet", rkey, o.serializer, o.serializer), "none")
        ELSE IF rtype = "hash"
        THEN Res(s, Wrapper("RedisDict", rkey, o.serializer, o.key_serializer), "none")
        ELSE IF rtype = "zset"
        THEN Res(s, Wrapper("RedisSortedSet", rkey, o.serializer, o.serializer), "none")
        ELSE Res(s, NoValue, "NotImplementedError")

\* __getitem__ (63-80) after the type query (62) answered rtype: s is the
\* store when the value is fetched.
OR_getitem_typed(o, s, t, key, rtype) ==
    LET rkey == OR_ns(o, key)
    IN  IF rtype = "none" THEN OR_memoize(o, s, t, key)
        ELSE IF rtype = "string"
        THEN LET bval == R_get(s, rkey)
             IN  IF ~bval.nil
                 THEN IF Loads(o.serializer, bval.val).ok
                      THEN Res(s, Scalar(Loads(o.serializer, bval.val).obj), "none")
                      ELSE Res(s, NoValue, "LoadError")
                 ELSE OR_memoize(o, s, t, key)
        ELSE IF rtype = "list"
        THEN Res(s, Wrapper("RedisList", rkey, o.serializer, o.serializer), "none")
        ELSE IF rtype = "set"
        THEN Res(s, Wrapper("RedisSet", rkey, o.serializer, o.serializer), "none")
        ELSE IF rtype = "hash"
        THEN Res(s, Wrapper("RedisDict", rkey, o.serializer, o.key_serializer), "none")
        ELSE IF rtype = "zset"
        THEN Res(s, Wrapper("RedisSortedSet", rkey, o.serializer, o.serializer), "none")
        ELSE Res(s, NoValue, "NotImplementedError")

\* __getitem__ (55-80) with nothing in between: the type query (61-62) and
\* what follows it see the same store.
OR_getitem(o, s, t, key) == OR_getitem_typed(o, s, t, key, R_type(s, OR_ns(o, key)))

\* __contains__ (152-157).
OR_contains(o, s, key) == R_exists(s, OR_ns(o, key))

\* __delitem__ (159-165).
OR_delitem(o, s, key) ==
    LET r == R_delete(s, OR_ns(o, key))
    IN  IF r.reply = 0 THEN Res(r.store, NoValue, "KeyError")
        ELSE Res(r.store, NoValue, "none")

\* __iter__ (167-183): the keys of the scan that _dns decodes.
OR_iter(o, s) ==
    {OR_dns(o, k).obj :
        k \in {x \in R_scan(s, o.hasNamespace, o.namespace) : OR_dns(o, x).ok}}

\* A faulty variant of __len__: every scanned key is counted, decodable or not.
OR_len_CountsAll(o, s) == Cardinality(R_scan(s, o.hasNamespace, o.namespace))

\* __len__ (185-189): one per key that __iter__ yields.
OR_len(o, s) ==
    Cardinality({x \in R_scan(s, o.hasNamespace, o.namespace) : OR_dns(o, x).ok})

\* The content read through the wrapper that __getitem__ returned.
WrapperContent(w, s) ==
    CASE w.kind = "RedisList" -> RL_iter(RedisList(w.val.name, w.val.serializer), s)
      [] w.kind = "RedisSet" -> RS_iter(RedisSet(w.val.name, w.val.serializer), s)
      [] w.kind = "RedisDict" ->
             RD_items(RedisDict(w.val.name, w.val.serializer, w.val.key_serializer), s)
      [] OTHER -> Res(s, NoValue, "TypeError")

(***************************************************************************)
(* Claims about _dict_eq.                                                  *)
(***************************************************************************)
\* The mapping an items iterator describes.
ValueAt(s, k) == s[CHOOSE i \in 1..Len(s) : s[i][1] = k][2]

KeysOf(s) == {s[i][1] : i \in 1..Len(s)}

SameMapping(s, t) ==
    /\ KeysOf(s) = KeysOf(t)
    /\ \A k \in KeysOf(s) : ValueAt(s, k) = ValueAt(t, k)

\* C1: _dict_eq(a, b) returns True exactly when a and b have the same keys
\* and equal values at every key, whatever the two iteration orders are;
\* mappings of different length compare False.
C1_DictEqIffSameMapping ==
    deq.pc = "done" =>
        /\ deq.ret = SameMapping(deq.a, deq.b)
        /\ (Len(deq.a) # Len(deq.b) => deq.ret = FALSE)

\* Two equal mappings, iterated in different orders, have been compared.
C1_Witness ==
    /\ deq.pc = "done"
    /\ deq.ret = TRUE
    /\ Len(deq.a) = MaxItems
    /\ deq.a # deq.b
    /\ deq.a[1][1] # deq.b[1][1]

(***************************************************************************)
(* ObjectRedis as a dictionary of scalars: three instances with different  *)
(* namespaces and codecs over one store, under d[k] = v, del d[k] and the  *)
(* reads.                                                                  *)
(***************************************************************************)
DictInst ==
    <<ObjectRedis(NsNone, "pickle", "pickle", FALSE, TtlNone),
      ObjectRedis(NsText(<<"foo">>), "pickle", "pickle", FALSE, TtlNone),
      ObjectRedis(NsText(<<"foo", ":::", "bar">>), "json", "json", FALSE, TtlNone)>>

DictIdx == DOMAIN DictInst

ObjKeys == {PyTrue, PyOne}

ScalarVals == {Scalar(PyFloat), Scalar(PyThree)}

CallWith(op, i, key, exc, val, ttl) ==
    [op |-> op, inst |-> i, key |-> key, exc |-> exc, val |-> val, ttl |-> ttl]

Call(op, i, key, exc) == CallWith(op, i, key, exc, <<>>, 0)

\* The writer of every key of the store s2 that instance i made from s.
OwnerAfter(own, s, s2, i) ==
    [rk \in DOMAIN s2 |-> IF rk \in DOMAIN s /\ s2[rk] = s[rk] THEN own[rk] ELSE i]

D_SetItem(i, k, v) ==
    LET r == OR_setitem(DictInst[i], store, now, k, v)
    IN  /\ store' = r.store
        /\ last' = Call("setitem", i, k, r.exc)
        /\ ref' = [ref EXCEPT ![i] = DictPut(@, k, v)]
        /\ owner' = OwnerAfter(owner, store, r.store, i)
        /\ UNCHANGED <<deq, now, pcs>>

D_DelItem(i, k) ==
    LET r == OR_delitem(DictInst[i], store, k)
    IN  /\ store' = r.store
        /\ last' = Call("delitem", i, k, r.exc)
        /\ ref' = [ref EXCEPT ![i] = DictDel(@, k)]
        /\ owner' = OwnerAfter(owner, store, r.store, i)
        /\ UNCHANGED <<deq, now, pcs>>

D_GetItem(i, k) ==
    LET r == OR_getitem(DictInst[i], store, now, k)
    IN  /\ store' = r.store
        /\ last' = Call("getitem", i, k, r.exc)
        /\ owner' = OwnerAfter(owner, store, r.store, i)
        /\ UNCHANGED <<deq, now, ref, pcs>>

D_Contains(i, k) ==
    /\ last' = Call(IF OR_contains(DictInst[i], store, k) THEN "contains" ELSE "contains_not",
                    i, k, "none")
    /\ UNCHANGED <<deq, store, now, ref, owner, pcs>>

D_Iter(i) ==
    /\ last' = Call("iter", i, <<>>, "none")
    /\ UNCHANGED <<deq, store, now, ref, owner, pcs>>

D_Len(i) ==
    /\ last' = Call("len", i, <<>>, "none")
    /\ UNCHANGED <<deq, store, now, ref, owner, pcs>>

InitDict ==
    /\ deq = DictEqIdle
    /\ store = <<>>
    /\ now = 0
    /\ last = NoCall
    /\ ref = [i \in DictIdx |-> EmptyDict]
    /\ owner = <<>>
    /\ pcs = <<>>

NextDict ==
    \E i \in DictIdx :
        \/ \E k \in ObjKeys, v \in ScalarVals : D_SetItem(i, k, v)
        \/ \E k \in ObjKeys : D_DelItem(i, k)
        \/ \E k \in ObjKeys : D_GetItem(i, k)
        \/ \E k \in ObjKeys : D_Contains(i, k)
        \/ D_Iter(i)
        \/ D_Len(i)

SpecDict == InitDict /\ [][NextDict]_vars

\* C2: for scalar values an ObjectRedis is a dictionary keyed by the
\* serialized key: after any sequence of d[k] = v and del d[k], d[k] is the
\* value last set, k in d holds exactly for the keys set and not deleted,
\* and len(d) and the keys of iteration are those of the live keys; True
\* and 1 are distinct keys.
C2_ObjectRedisIsDict ==
    \A i \in DictIdx :
        LET o == DictInst[i]
        IN  /\ \A k \in ObjKeys :
                 /\ OR_contains(o, store, k) <=> k \in DOMAIN ref[i]
                 /\ k \in DOMAIN ref[i] =>
                        /\ OR_getitem(o, store, now, k).exc = "none"
                        /\ OR_getitem(o, store, now, k).ret = ref[i][k]
            /\ OR_len(o, store) = DictLen(ref[i])
            /\ OR_iter(o, store) = DOMAIN ref[i]

\* An instance holds True and 1 with different values after a deletion.
C2_Witness ==
    \E i \in DictIdx :
        /\ last.op = "delitem" /\ last.exc = "none"
        /\ DOMAIN ref[i] = {PyTrue, PyOne}
        /\ ref[i][PyTrue] # ref[i][PyOne]
        /\ OR_getitem(DictInst[i], store, now, PyTrue).ret = Scalar(PyFloat)

\* The part of the store that was written through instance j.
StoreOf(j) == [rk \in {x \in DOMAIN store : owner[x] = j} |-> store[rk]]

\* C4: instances with different namespaces (or none) over one store are
\* isolated: what iteration, len, in and d[k] report through an instance
\* depends only on the keys written through it, del through it leaves the
\* keys of the other instances in place, and iteration passes over the
\* store keys it cannot decode.
C4_NamespacesIsolated ==
    \A j \in DictIdx :
        LET o == DictInst[j]
            own == StoreOf(j)
        IN  /\ OR_iter(o, store) = OR_iter(o, own)
            /\ OR_len(o, store) = OR_len(o, own)
            /\ \A k \in ObjKeys :
                 /\ OR_contains(o, store, k) = OR_contains(o, own, k)
                 /\ OR_getitem(o, store, now, k).exc = OR_getitem(o, own, now, k).exc
                 /\ OR_getitem(o, store, now, k).ret = OR_getitem(o, own, now, k).ret
                 /\ \A rk \in DOMAIN store :
                      owner[rk] # j =>
                          /\ rk \in DOMAIN OR_delitem(o, store, k).store
                          /\ OR_delitem(o, store, k).store[rk] = store[rk]

\* An instance has iterated while its scan returned a key of another
\* instance, and every instance holds the key True.
C4_Witness ==
    /\ last.op = "iter"
    /\ \E rk \in R_scan(store, DictInst[last.inst].hasNamespace,
                        DictInst[last.inst].namespace) : owner[rk] # last.inst
    /\ \A j \in DictIdx : OR_contains(DictInst[j], store, PyTrue)

\* C7: without a missing function, reading an absent key raises KeyError
\* and stores nothing, and deleting an absent key raises KeyError; the
\* store is as it was.
C7_AbsentKeyRaises ==
    \A i \in DictIdx, k \in ObjKeys :
        k \notin DOMAIN ref[i] =>
            /\ OR_getitem(DictInst[i], store, now, k).exc = "KeyError"
            /\ OR_getitem(DictInst[i], store, now, k).store = store
            /\ OR_delitem(DictInst[i], store, k).exc = "KeyError"
            /\ OR_delitem(DictInst[i], store, k).store = store

\* A read of an absent key has raised KeyError in a store that holds
\* other keys.
C7_Witness ==
    /\ last.op = "getitem"
    /\ last.exc = "KeyError"
    /\ last.key \notin DOMAIN ref[last.inst]
    /\ DOMAIN store # {}

(***************************************************************************)
(* ObjectRedis holding scalars and collections, with time-to-live, a       *)
(* missing function and a clock that advances.                             *)
(***************************************************************************)
ObjInst ==
    <<ObjectRedis(NsNone, "pickle", "pickle", FALSE, TtlNone),
      ObjectRedis(NsNone, "pickle", "pickle", TRUE, TtlNone),
      ObjectRedis(NsNone, "pickle", "pickle", TRUE, MaxTtl)>>

ObjIdx == DOMAIN ObjInst

CollKeys == {PyA}

Elems == {PyOne, PyA}

ListVals == {PyList(xs) : xs \in SeqsUpTo(Elems, MaxElems)}

SetVals == {PySet(xs) : xs \in SUBSET Elems}

DictVals ==
    {PyDict(d) : d \in UNION {[ks -> Elems] : ks \in {x \in SUBSET Elems : Cardinality(x) <= MaxElems}}}

Ttls == {TtlNone} \cup (1..MaxTtl)

\* What the key is expected to hold: the value, the time it is due to
\* expire (NoExpiry for never) and whether a miss stored it.
Expect(v, due, memo) == [val |-> v, due |-> due, memo |-> memo]

Due(t, ttl) == IF ttl = TtlNone THEN NoExpiry ELSE t + ttl

O_Set(i, k, v, ttl) ==
    LET r == OR_set(ObjInst[i], store, now, k, v, ttl)
    IN  /\ store' = r.store
        /\ last' = CallWith("set", i, k, r.exc, v, ttl)
        /\ ref' = DictPut(ref, k, Expect(v, Due(now, ttl), FALSE))
        /\ UNCHANGED <<deq, now, owner, pcs>>

O_GetItem(i, k) ==
    LET r == OR_getitem(ObjInst[i], store, now, k)
        miss == r.store # store
    IN  /\ store' = r.store
        /\ last' = CallWith(IF miss THEN "getitem_miss" ELSE "getitem", i, k, r.exc,
                            r.ret, 0)
        /\ ref' = IF miss
                  THEN DictPut(ref, k, Expect(r.ret, Due(now, ObjInst[i].missing_ttl), TRUE))
                  ELSE ref
        /\ UNCHANGED <<deq, now, owner, pcs>>

O_DelItem(i, k) ==
    LET r == OR_delitem(ObjInst[i], store, k)
    IN  /\ store' = r.store
        /\ last' = Call("delitem", i, k, r.exc)
        /\ ref' = DictDel(ref, k)
        /\ UNCHANGED <<deq, now, owner, pcs>>

O_Contains(i, k) ==
    /\ last' = Call(IF OR_contains(ObjInst[i], store, k) THEN "contains" ELSE "contains_not",
                    i, k, "none")
    /\ UNCHANGED <<deq, store, now, ref, owner, pcs>>

\* The clock of the store advances; the store drops what has expired.
Tick ==
    /\ now < MaxTime
    /\ now' = now + 1
    /\ store' = Live(store, now + 1)
    /\ last' = Call("tick", 0, <<>>, "none")
    /\ UNCHANGED <<deq, ref, owner, pcs>>

InitObj ==
    /\ deq = DictEqIdle
    /\ store = <<>>
    /\ now = 0
    /\ last = NoCall
    /\ ref = EmptyDict
    /\ owner = <<>>
    /\ pcs = <<>>

NextObj ==
    \/ \E i \in ObjIdx, k \in CollKeys, ttl \in Ttls :
           \/ \E v \in ScalarVals : O_Set(i, k, v, ttl)
           \/ \E v \in ListVals : O_Set(i, k, v, ttl)
           \/ \E v \in SetVals : O_Set(i, k, v, ttl)
           \/ \E v \in DictVals : O_Set(i, k, v, ttl)
    \/ \E i \in ObjIdx, k \in CollKeys : O_GetItem(i, k)
    \/ \E i \in ObjIdx, k \in CollKeys : O_DelItem(i, k)
    \/ \E i \in ObjIdx, k \in CollKeys : O_Contains(i, k)
    \/ Tick

SpecObj == InitObj /\ [][NextObj]_vars

WrapperClass(kind) ==
    CASE kind = "list" -> "RedisList"
      [] kind = "set" -> "RedisSet"
      [] kind = "dict" -> "RedisDict"
      [] OTHER -> "none"

NativeType(kind) ==
    CASE kind = "list" -> "list"
      [] kind = "set" -> "set"
      [] kind = "dict" -> "hash"
      [] OTHER -> "string"

\* After d.set(k, v, ttl) through o: k reads back as the wrapper of v's kind
\* over the native type, with the content of v.
ReadsBack(o, k, v) ==
    LET r == OR_getitem(o, store, now, k)
    IN  /\ r.exc = "none"
        /\ r.ret.kind = WrapperClass(v.kind)
        /\ R_type(store, OR_ns(o, k)) = NativeType(v.kind)
        /\ WrapperContent(r.ret, store).exc = "none"
        /\ WrapperContent(r.ret, store).ret = v

\* C3: a list, set or dict assigned to a key is stored as the native list,
\* set or hash and d[k] is then a RedisList, RedisSet or RedisDict with the
\* content of the assigned value, whatever the key held before.
C3_CollectionReadsBack ==
    (last.op = "set" /\ last.val.kind \in {"list", "set", "dict"}) =>
        /\ last.exc = "none"
        /\ ReadsBack(ObjInst[last.inst], last.key, last.val)

\* C5: with a missing function, reading an absent key k returns missing(k)
\* and stores it under k with the time-to-live missing_ttl(k); until that
\* expiry every read of k returns the stored value and stores nothing; a
\* membership test that finds no key leaves none.
C5_MissingIsMemoized ==
    /\ \A i \in ObjIdx, k \in CollKeys :
         (ObjInst[i].missing /\ ~OR_contains(ObjInst[i], store, k)) =>
             LET r == OR_getitem(ObjInst[i], store, now, k)
             IN  /\ r.exc = "none"
                 /\ r.ret = MissingValue(k)
                 /\ OR_getitem(ObjInst[i], r.store, now, k).ret = MissingValue(k)
                 /\ R_ttl(r.store, now, OR_ns(ObjInst[i], k)) =
                        IF ObjInst[i].missing_ttl = TtlNone THEN -1
                        ELSE ObjInst[i].missing_ttl
    /\ \A k \in DOMAIN ref :
         (ref[k].memo /\ (ref[k].due = NoExpiry \/ now < ref[k].due)) =>
             \A i \in ObjIdx :
                 /\ OR_getitem(ObjInst[i], store, now, k).exc = "none"
                 /\ OR_getitem(ObjInst[i], store, now, k).ret = ref[k].val
                 /\ OR_getitem(ObjInst[i], store, now, k).store = store
    /\ last.op = "contains_not" => ~R_exists(store, OR_ns(ObjInst[last.inst], last.key))

\* A value stored by a miss with a time-to-live has been read again, after
\* the clock moved and before it expired.
C5_Witness ==
    /\ last.op = "getitem"
    /\ last.exc = "none"
    /\ last.key \in DOMAIN ref
    /\ ref[last.key].memo
    /\ ref[last.key].due # NoExpiry
    /\ now > 0
    /\ now < ref[last.key].due
    /\ last.val = MissingValue(last.key)

\* C6: set(key, value, ttl) leaves the key with a remaining time-to-live in
\* 1..ttl, and once ttl has elapsed the key is not in the collection, for
\* scalar, list, set and dict values.
C6_TtlIsHonoured ==
    /\ (last.op = "set" /\ last.ttl # TtlNone) =>
           /\ last.exc = "none"
           /\ R_ttl(store, now, OR_ns(ObjInst[last.inst], last.key)) \in 1..last.ttl
    /\ \A k \in DOMAIN ref :
           (ref[k].due # NoExpiry /\ now >= ref[k].due) =>
               \A i \in ObjIdx : ~OR_contains(ObjInst[i], store, k)

(***************************************************************************)
(* RedisList('foo') beside a reference Python list, under append, extend,  *)
(* a[i] = v, clear and the reads.                                          *)
(***************************************************************************)
TheList == RedisList(<<"foo">>, "pickle")

ListIdx == (0 - MaxListLen - 1)..(MaxListLen + 1)

ListCall(op, index, arg, r, before) ==
    [op |-> op, index |-> index, arg |-> arg, ret |-> r.ret, exc |-> r.exc,
     before |-> before]

\* The list as Python sees it: the stored elements, deserialized.
Decoded(s) == LoadsAll(TheList.serializer, ListAt(s, TheList.name))

\* Python's a[i] = v on the reference list: IndexError leaves it as it is.
PySetItem(xs, i, v) ==
    LET p == IF i < 0 THEN i + Len(xs) + 1 ELSE i + 1
    IN  IF p >= 1 /\ p <= Len(xs) THEN [xs EXCEPT ![p] = v] ELSE xs

L_Append(v) ==
    /\ Len(ref) < MaxListLen
    /\ LET r == RL_append(TheList, store, v)
       IN  /\ store' = r.store
           /\ last' = ListCall("append", 0, v, r, Decoded(store))
    /\ ref' = Append(ref, v)
    /\ UNCHANGED <<deq, now, owner, pcs>>

L_Extend(vs) ==
    /\ Len(ref) + Len(vs) <= MaxListLen
    /\ LET r == RL_extend(TheList, store, vs)
       IN  /\ store' = r.store
           /\ last' = ListCall("extend", 0, <<>>, r, Decoded(store))
    /\ ref' = ref \o vs
    /\ UNCHANGED <<deq, now, owner, pcs>>

L_SetItem(i, v) ==
    /\ LET r == RL_setitem(TheList, store, i, v)
       IN  /\ store' = r.store
           /\ last' = ListCall("setitem", i, v, r, Decoded(store))
    /\ ref' = PySetItem(ref, i, v)
    /\ UNCHANGED <<deq, now, owner, pcs>>

L_Clear ==
    /\ LET r == RL_clear(TheList, store)
       IN  /\ store' = r.store
           /\ last' = ListCall("clear", 0, <<>>, r, Decoded(store))
    /\ ref' = <<>>
    /\ UNCHANGED <<deq, now, owner, pcs>>

L_GetItem(i) ==
    /\ last' = ListCall("getitem", i, <<>>, RL_getitem(TheList, store, i), Decoded(store))
    /\ UNCHANGED <<deq, store, now, ref, owner, pcs>>

L_Len ==
    /\ last' = ListCall("len", RL_len(TheList, store), <<>>, Res(store, NoValue, "none"),
                        Decoded(store))
    /\ UNCHANGED <<deq, store, now, ref, owner, pcs>>

L_Iter ==
    /\ last' = ListCall("iter", 0, <<>>, RL_iter(TheList, store), Decoded(store))
    /\ UNCHANGED <<deq, store, now, ref, owner, pcs>>

L_Reversed ==
    /\ last' = ListCall("reversed", 0, <<>>, RL_reversed(TheList, store), Decoded(store))
    /\ UNCHANGED <<deq, store, now, ref, owner, pcs>>

InitList ==
    /\ deq = DictEqIdle
    /\ store = <<>>
    /\ now = 0
    /\ last = NoCall
    /\ ref = <<>>
    /\ owner = <<>>
    /\ pcs = <<>>

NextList ==
    \/ \E v \in Elems : L_Append(v)
    \/ \E vs \in SeqsUpTo(Elems, MaxElems) : L_Extend(vs)
    \/ \E i \in ListIdx, v \in Elems : L_SetItem(i, v)
    \/ L_Clear
    \/ \E i \in ListIdx : L_GetItem(i)
    \/ L_Len
    \/ L_Iter
    \/ L_Reversed

SpecList == InitList /\ [][NextList]_vars

\* C8: under any sequence of append, extend, a[i] = v and clear, len(a),
\* iteration and __reversed__ give the reference list (reversed for the
\* last), a[i] is the element at i for 0 <= i < len and counts from the end
\* for -len <= i < 0, and any other index raises IndexError.
C8_ListMatchesReference ==
    LET n == Len(ref)
        it == RL_iter(TheList, store)
        rv == RL_reversed(TheList, store)
    IN  /\ RL_len(TheList, store) = n
        /\ it.exc = "none" /\ it.ret = PyList(ref)
        /\ rv.exc = "none" /\ Len(rv.ret.val) = n
        /\ \A j \in 1..n : rv.ret.val[j] = ref[n + 1 - j]
        /\ \A i \in ListIdx :
             LET g == RL_getitem(TheList, store, i)
             IN  /\ (0 <= i /\ i < n) => (g.exc = "none" /\ g.ret = Scalar(ref[i + 1]))
                 /\ (0 - n <= i /\ i < 0) => (g.exc = "none" /\ g.ret = Scalar(ref[n + i + 1]))
                 /\ (i >= n \/ i < 0 - n) => g.exc = "IndexError"

\* The last element of a full list with different ends has been read by
\* a[-1].
C8_Witness ==
    /\ last.op = "getitem"
    /\ last.index = -1
    /\ Len(ref) = MaxListLen
    /\ ref[1] # ref[MaxListLen]
    /\ last.ret = Scalar(ref[MaxListLen])

(***************************************************************************)
(* RedisList('foo') under insert and pop as well: every call records the   *)
(* list it found.                                                          *)
(***************************************************************************)
E_Insert(i, v, t) ==
    /\ Len(Decoded(store)) < MaxListLen
    /\ LET r == RL_insert(TheList, store, i, v, t)
       IN  /\ store' = r.store
           /\ last' = ListCall("insert", i, v, r, Decoded(store))
           /\ ref' = Decoded(r.store)
    /\ UNCHANGED <<deq, now, owner, pcs>>

E_Pop(i, t) ==
    /\ LET r == RL_pop(TheList, store, i, t)
       IN  /\ store' = r.store
           /\ last' = ListCall("pop", i, <<>>, r, Decoded(store))
           /\ ref' = Decoded(r.store)
    /\ UNCHANGED <<deq, now, owner, pcs>>

NextListEdit ==
    \/ \E v \in Elems : L_Append(v)
    \/ \E vs \in SeqsUpTo(Elems, MaxElems) : L_Extend(vs)
    \/ \E i \in ListIdx, v \in Elems : L_SetItem(i, v)
    \/ L_Clear
    \/ \E i \in ListIdx, v \in Elems, t \in TokenChars : E_Insert(i, v, t)
    \/ \E i \in ListIdx, t \in TokenChars : E_Pop(i, t)
    \/ L_Iter

SpecListEdit == InitList /\ [][NextListEdit]_vars

\* No element of the stored list is a placeholder token.
NoToken(s) ==
    \A j \in 1..Len(ListAt(s, TheList.name)) :
        Loads(TheList.serializer, ListAt(s, TheList.name)[j]).ok

\* C9: insert(i, v) with 0 <= i < len(a) puts v at position i, directly
\* before the element that was there, and keeps the other elements in
\* order; with i >= len(a) it appends v.  The length grows by one and no
\* token is left.
C9_InsertPlacesValue ==
    (last.op = "insert" /\ last.index >= 0) =>
        LET b == last.before
            a == Decoded(store)
            i == last.index
        IN  /\ last.exc = "none"
            /\ NoToken(store)
            /\ Len(a) = Len(b) + 1
            /\ i < Len(b) =>
                   /\ a[i + 1] = last.arg
                   /\ a[i + 2] = b[i + 1]
                   /\ \A j \in 1..i : a[j] = b[j]
                   /\ \A j \in (i + 1)..Len(b) : a[j + 1] = b[j]
            /\ i >= Len(b) =>
                   /\ a[Len(a)] = last.arg
                   /\ \A j \in 1..Len(b) : a[j] = b[j]

\* A value has been inserted inside a list that already held an equal one.
C9_Witness ==
    /\ last.op = "insert"
    /\ last.index = 1
    /\ Len(last.before) = MaxListLen - 1
    /\ last.before[1] = last.arg
    /\ last.before[2] # last.arg
    /\ Len(Decoded(store)) = MaxListLen

\* C10: pop() removes and returns the last element, pop(0) the first and
\* pop(i) the element at position i, the others staying in order; on an
\* empty list or for an index that addresses no element it raises
\* IndexError and the list is as it was.
C10_PopRemovesElement ==
    last.op = "pop" =>
        LET b == last.before
            a == Decoded(store)
            p == IF last.index < 0 THEN last.index + Len(b) + 1 ELSE last.index + 1
        IN  IF p >= 1 /\ p <= Len(b)
            THEN /\ last.exc = "none"
                 /\ last.ret = Scalar(b[p])
                 /\ NoToken(store)
                 /\ Len(a) = Len(b) - 1
                 /\ \A j \in 1..(p - 1) : a[j] = b[j]
                 /\ \A j \in (p + 1)..Len(b) : a[j - 1] = b[j]
            ELSE /\ last.exc = "IndexError"
                 /\ a = b
                 /\ NoToken(store)

\* The middle element of a full list was popped while an equal element
\* stood before it.
C10_Witness ==
    /\ last.op = "pop"
    /\ last.index = 1
    /\ last.exc = "none"
    /\ Len(last.before) = MaxListLen
    /\ last.before[1] = last.before[2]
    /\ last.before[3] # last.before[2]

(***************************************************************************)
(* RedisList('foo') under del a[i], remove, index and `in`.                *)
(***************************************************************************)
E_DelItem(i, t) ==
    /\ LET r == RL_delitem(TheList, store, i, t)
       IN  /\ store' = r.store
           /\ last' = ListCall("delitem", i, <<>>, r, Decoded(store))
           /\ ref' = Decoded(r.store)
    /\ UNCHANGED <<deq, now, owner, pcs>>

E_Remove(v) ==
    /\ LET r == RL_remove(TheList, store, v)
       IN  /\ store' = r.store
           /\ last' = ListCall("remove", 0, v, r, Decoded(store))
           /\ ref' = Decoded(r.store)
    /\ UNCHANGED <<deq, now, owner, pcs>>

E_Index(v) ==
    /\ LET r == RL_index(TheList, store, v, 0, Nil)
       IN  /\ store' = r.store
           /\ last' = ListCall("index", 0, v, r, Decoded(store))
    /\ UNCHANGED <<deq, now, ref, owner, pcs>>

E_Contains(v) ==
    /\ LET r == RL_contains(TheList, store, v)
       IN  /\ store' = r.store
           /\ last' = ListCall("contains", 0, v, r, Decoded(store))
    /\ UNCHANGED <<deq, now, ref, owner, pcs>>

\* The values looked for: one more than the values stored.
Sought == Elems \cup {PyThree}

NextListFind ==
    \/ \E v \in Elems : L_Append(v)
    \/ \E vs \in SeqsUpTo(Elems, MaxElems) : L_Extend(vs)
    \/ \E i \in ListIdx, v \in Elems : L_SetItem(i, v)
    \/ L_Clear
    \/ \E i \in ListIdx, t \in TokenChars : E_DelItem(i, t)
    \/ \E v \in Sought : E_Remove(v)
    \/ \E v \in Sought : E_Index(v)
    \/ \E v \in Sought : E_Contains(v)

SpecListFind == InitList /\ [][NextListFind]_vars

\* The 1-based position of the first element of xs equal to v, 0 for none.
FirstEqual(xs, v) ==
    IF \A j \in 1..Len(xs) : xs[j] # v THEN 0
    ELSE CHOOSE j \in 1..Len(xs) : xs[j] = v /\ \A h \in 1..(j - 1) : xs[h] # v

\* C11: del a[i] with a valid index i (negative from the end) removes the
\* element at position i and no other: the list is one shorter, the other
\* elements keep value and order even when one equals the removed one, and
\* no token is left.
C11_DelRemovesPosition ==
    last.op = "delitem" =>
        LET b == last.before
            a == Decoded(store)
            p == IF last.index < 0 THEN last.index + Len(b) + 1 ELSE last.index + 1
        IN  (p >= 1 /\ p <= Len(b)) =>
                /\ last.exc = "none"
                /\ NoToken(store)
                /\ Len(a) = Len(b) - 1
                /\ \A j \in 1..(p - 1) : a[j] = b[j]
                /\ \A j \in (p + 1)..Len(b) : a[j - 1] = b[j]

\* The last element of a full list was deleted by a negative index while an
\* equal element stood at the head.
C11_Witness ==
    /\ last.op = "delitem"
    /\ last.index = -1
    /\ Len(last.before) = MaxListLen
    /\ last.before[1] = last.before[MaxListLen]
    /\ last.before[2] # last.before[1]
    /\ Len(Decoded(store)) = MaxListLen - 1

\* C12: remove(v) deletes one element, the first equal to v, keeping the
\* others in order; with no element equal to v it raises ValueError and
\* the list is as it was.
C12_RemoveFirstEqual ==
    last.op = "remove" =>
        LET b == last.before
            a == Decoded(store)
            p == FirstEqual(b, last.arg)
        IN  IF p = 0
            THEN last.exc = "ValueError" /\ a = b
            ELSE /\ last.exc = "none"
                 /\ Len(a) = Len(b) - 1
                 /\ \A j \in 1..(p - 1) : a[j] = b[j]
                 /\ \A j \in (p + 1)..Len(b) : a[j - 1] = b[j]

\* A value that stood twice in the list, not at the head, was removed.
C12_Witness ==
    /\ last.op = "remove"
    /\ last.exc = "none"
    /\ Len(last.before) = MaxListLen
    /\ last.before[1] # last.arg
    /\ last.before[2] = last.arg
    /\ last.before[3] = last.arg

\* C13: index(v) returns the position of the first element equal to v and
\* raises ValueError when there is none; `v in a` is True exactly when
\* index(v) succeeds; neither changes the list.
C13_IndexFindsFirst ==
    \A v \in Sought :
        LET xs == Decoded(store)
            p == FirstEqual(xs, v)
            ix == RL_index(TheList, store, v, 0, Nil)
            cn == RL_contains(TheList, store, v)
        IN  /\ ix.store = store /\ cn.store = store
            /\ p = 0 => ix.exc = "ValueError"
            /\ p # 0 => (ix.exc = "none" /\ ix.ret = PyInt(p - 1))
            /\ cn.exc = "none"
            /\ cn.ret = PyBool(ix.exc = "none")

\* index found a value that stands twice in a full list, not at the head.
C13_Witness ==
    /\ last.op = "index"
    /\ last.exc = "none"
    /\ last.ret = PyInt(1)
    /\ Len(last.before) = MaxListLen
    /\ last.before[3] = last.arg

(***************************************************************************)
(* RedisSet('foo') beside a reference Python set.                          *)
(***************************************************************************)
TheSet == RedisSet(<<"foo">>, "pickle")

SetItems == {PyZero, PyNone, PyA}

SetCall(op, arg, ret, exc, before) ==
    [op |-> op, arg |-> arg, ret |-> ret, exc |-> exc, before |-> before]

S_Add(x) ==
    /\ LET r == RS_add(TheSet, store, x)
       IN  /\ store' = r.store
           /\ last' = SetCall("add", {x}, NoValue, r.exc, store)
    /\ ref' = ref \cup {x}
    /\ UNCHANGED <<deq, now, owner, pcs>>

S_Update(others) ==
    /\ LET r == RS_update(TheSet, store, others)
       IN  /\ store' = r.store
           /\ last' = SetCall("update", ItemsOf(others), NoValue, r.exc, store)
    /\ ref' = ref \cup ItemsOf(others)
    /\ UNCHANGED <<deq, now, owner, pcs>>

S_Discard(x) ==
    /\ LET r == RS_discard(TheSet, store, x)
       IN  /\ store' = r.store
           /\ last' = SetCall("discard", {x}, NoValue, r.exc, store)
    /\ ref' = ref \ {x}
    /\ UNCHANGED <<deq, now, owner, pcs>>

S_Clear ==
    /\ LET r == RS_clear(TheSet, store)
       IN  /\ store' = r.store
           /\ last' = SetCall("clear", {}, NoValue, r.exc, store)
    /\ ref' = {}
    /\ UNCHANGED <<deq, now, owner, pcs>>

S_Contains(x) ==
    /\ last' = SetCall("contains", {x}, PyBool(RS_contains(TheSet, store, x)), "none", store)
    /\ UNCHANGED <<deq, store, now, ref, owner, pcs>>

S_Len ==
    /\ last' = SetCall("len", {}, PyInt(RS_len(TheSet, store)), "none", store)
    /\ UNCHANGED <<deq, store, now, ref, owner, pcs>>

S_Iter ==
    /\ LET r == RS_iter(TheSet, store)
       IN  last' = SetCall("iter", {}, r.ret, r.exc, store)
    /\ UNCHANGED <<deq, store, now, ref, owner, pcs>>

InitSet ==
    /\ deq = DictEqIdle
    /\ store = <<>>
    /\ now = 0
    /\ last = SetCall("none", {}, NoValue, "none", <<>>)
    /\ ref = {}
    /\ owner = <<>>
    /\ pcs = <<>>

NextSet ==
    \/ \E x \in SetItems : S_Add(x)
    \/ \E others \in SeqsUpTo(SUBSET SetItems, MaxElems) : S_Update(others)
    \/ \E x \in SetItems : S_Discard(x)
    \/ S_Clear
    \/ \E x \in SetItems : S_Contains(x)
    \/ S_Len
    \/ S_Iter

SpecSet == InitSet /\ [][NextSet]_vars

\* C14: under any sequence of add, update, discard and clear, membership,
\* len and the items of iteration are those of the reference set, falsy
\* items 0 and None included; adding a present item, discarding an absent
\* one, and update() with no argument or with empty iterables leave the
\* store as it was.
C14_SetMatchesReference ==
    LET it == RS_iter(TheSet, store)
    IN  /\ it.exc = "none" /\ it.ret = PySet(ref)
        /\ RS_len(TheSet, store) = Cardinality(ref)
        /\ \A x \in SetItems : RS_contains(TheSet, store, x) = (x \in ref)
        /\ last.exc = "none"
        /\ (last.op = "add" /\ last.arg \subseteq {x \in SetItems :
                                  RS_contains(TheSet, last.before, x)})
               => store = last.before
        /\ (last.op = "discard" /\ \A x \in last.arg : ~RS_contains(TheSet, last.before, x))
               => store = last.before
        /\ (last.op = "update" /\ last.arg = {}) => store = last.before

\* 0 was added to a set that holds None and another item.
C14_Witness ==
    /\ last.op = "add"
    /\ last.arg = {PyZero}
    /\ ~RS_contains(TheSet, last.before, PyZero)
    /\ ref = SetItems
    /\ RS_len(TheSet, store) = Cardinality(SetItems)

(***************************************************************************)
(* RedisDict('foo') beside a reference Python dict.                        *)
(***************************************************************************)
TheDict == RedisDict(<<"foo">>, "pickle", "pickle")

HashKeys == {PyA, PyOne}

HashVals == {PyA, PyThree}

\* The dicts handed to update.
HashMaps == UNION {[ks -> HashVals] : ks \in SUBSET HashKeys}

\* Python's d.update(m) on the reference dict.
PyUpdate(d, m) == [k \in DOMAIN d \cup DOMAIN m |-> IF k \in DOMAIN m THEN m[k] ELSE d[k]]

\* How often each value comes in the reference dict.
PyValues(d) ==
    [v \in {d[k] : k \in DOMAIN d} |-> Cardinality({k \in DOMAIN d : d[k] = v})]

DictCall(op, key, arg, r, before) ==
    [op |-> op, key |-> key, arg |-> arg, ret |-> r.ret, exc |-> r.exc, before |-> before]

H_SetItem(k, v) ==
    /\ LET r == RD_setitem(TheDict, store, k, v)
       IN  /\ store' = r.store
           /\ last' = DictCall("setitem", k, v, r, store)
    /\ ref' = DictPut(ref, k, v)
    /\ UNCHANGED <<deq, now, owner, pcs>>

H_DelItem(k) ==
    /\ LET r == RD_delitem(TheDict, store, k)
       IN  /\ store' = r.store
           /\ last' = DictCall("delitem", k, <<>>, r, store)
    /\ ref' = DictDel(ref, k)
    /\ UNCHANGED <<deq, now, owner, pcs>>

H_Update(m) ==
    /\ LET r == RD_update(TheDict, store, m)
       IN  /\ store' = r.store
           /\ last' = DictCall("update", <<>>, m, r, store)
    /\ ref' = PyUpdate(ref, m)
    /\ UNCHANGED <<deq, now, owner, pcs>>

H_Clear ==
    /\ LET r == RD_clear(TheDict, store)
       IN  /\ store' = r.store
           /\ last' = DictCall("clear", <<>>, <<>>, r, store)
    /\ ref' = EmptyDict
    /\ UNCHANGED <<deq, now, owner, pcs>>

H_GetItem(k) ==
    /\ last' = DictCall("getitem", k, <<>>, RD_getitem(TheDict, store, k), store)
    /\ UNCHANGED <<deq, store, now, ref, owner, pcs>>

H_Items ==
    /\ last' = DictCall("items", <<>>, <<>>, RD_items(TheDict, store), store)
    /\ UNCHANGED <<deq, store, now, ref, owner, pcs>>

H_Values ==
    /\ last' = DictCall("values", <<>>, <<>>, RD_values(TheDict, store), store)
    /\ UNCHANGED <<deq, store, now, ref, owner, pcs>>

InitHash ==
    /\ deq = DictEqIdle
    /\ store = <<>>
    /\ now = 0
    /\ last = DictCall("none", <<>>, <<>>, Res(<<>>, NoValue, "none"), <<>>)
    /\ ref = EmptyDict
    /\ owner = <<>>
    /\ pcs = <<>>

NextHash ==
    \/ \E k \in HashKeys, v \in HashVals : H_SetItem(k, v)
    \/ \E k \in HashKeys : H_DelItem(k)
    \/ \E m \in HashMaps : H_Update(m)
    \/ H_Clear
    \/ \E k \in HashKeys : H_GetItem(k)
    \/ H_Items
    \/ H_Values

SpecHash == InitHash /\ [][NextHash]_vars

\* C15: under any sequence of d[k] = v, del d[k], update and clear, d[k]
\* is the value last set for k, and len, keys(), values() and items() are
\* those of the reference dict; reading or deleting an absent key raises
\* KeyError and leaves the stored hash as it was.
C15_DictMatchesReference ==
    LET it == RD_items(TheDict, store)
        ks == RD_iter(TheDict, store)
        vs == RD_values(TheDict, store)
    IN  /\ it.exc = "none" /\ it.ret = PyDict(ref)
        /\ ks.exc = "none" /\ ks.ret = PySet(DOMAIN ref)
        /\ vs.exc = "none" /\ vs.ret.val = PyValues(ref)
        /\ RD_len(TheDict, store) = DictLen(ref)
        /\ \A k \in HashKeys :
             LET g == RD_getitem(TheDict, store, k)
                 d == RD_delitem(TheDict, store, k)
             IN  IF k \in DOMAIN ref
                 THEN g.exc = "none" /\ g.ret = Scalar(ref[k]) /\ d.exc = "none"
                 ELSE /\ g.exc = "KeyError" /\ g.store = store
                      /\ d.exc = "KeyError" /\ d.store = store
        /\ (last.op = "delitem" /\ last.exc = "KeyError") => store = last.before

\* Deleting a key that is not in a dict of one other key raised KeyError.
C15_Witness ==
    /\ last.op = "delitem"
    /\ last.exc = "KeyError"
    /\ DictLen(ref) = 1
    /\ last.key \notin DOMAIN ref
    /\ RD_len(TheDict, store) = 1

(***************************************************************************)
(* RedisSortedSet('foo') beside a reference mapping from key to score.     *)
(***************************************************************************)
TheZSet == RedisSortedSet(<<"foo">>, "pickle")

MaxScore == 2

ZKeys == {PyA, PyOne, PyThree}

Scores == 1..MaxScore

\* The dicts handed to update: up to MaxElems keys.
ZMaps ==
    UNION {[ks -> {PyNum(x) : x \in Scores}] :
             ks \in {q \in SUBSET ZKeys : Cardinality(q) <= MaxElems}}

ZCall(op, key, arg, r, before) ==
    [op |-> op, key |-> key, arg |-> arg, ret |-> r.ret, exc |-> r.exc, before |-> before]

Z_SetItem(k, x) ==
    /\ LET r == RZ_setitem(TheZSet, store, k, PyNum(x))
       IN  /\ store' = r.store
           /\ last' = ZCall("setitem", k, x, r, store)
    /\ ref' = DictPut(ref, k, x)
    /\ UNCHANGED <<deq, now, owner, pcs>>

Z_DelItem(k) ==
    /\ LET r == RZ_delitem(TheZSet, store, k)
       IN  /\ store' = r.store
           /\ last' = ZCall("delitem", k, 0, r, store)
    /\ ref' = DictDel(ref, k)
    /\ UNCHANGED <<deq, now, owner, pcs>>

Z_Update(m) ==
    /\ LET r == RZ_update(TheZSet, store, m)
       IN  /\ store' = r.store
           /\ last' = ZCall("update", DOMAIN m, 0, r, store)
    /\ ref' = [k \in DOMAIN ref \cup DOMAIN m |-> IF k \in DOMAIN m THEN m[k].val ELSE ref[k]]
    /\ UNCHANGED <<deq, now, owner, pcs>>

Z_Clear ==
    /\ LET r == RZ_clear(TheZSet, store)
       IN  /\ store' = r.store
           /\ last' = ZCall("clear", <<>>, 0, r, store)
    /\ ref' = EmptyDict
    /\ UNCHANGED <<deq, now, owner, pcs>>

Z_GetItem(k) ==
    /\ last' = ZCall("getitem", k, 0, RZ_getitem(TheZSet, store, k), store)
    /\ UNCHANGED <<deq, store, now, ref, owner, pcs>>

Z_Iter(scan) ==
    /\ last' = ZCall("iter", <<>>, 0, RZ_iter(TheZSet, store, scan), store)
    /\ UNCHANGED <<deq, store, now, ref, owner, pcs>>

Z_Items(scan) ==
    /\ last' = ZCall("items", <<>>, 0, RZ_items(TheZSet, store, scan), store)
    /\ UNCHANGED <<deq, store, now, ref, owner, pcs>>

Z_Index(k) ==
    /\ last' = ZCall("index", k, 0, RZ_index(TheZSet, store, k), store)
    /\ UNCHANGED <<deq, store, now, ref, owner, pcs>>

InitZSet ==
    /\ deq = DictEqIdle
    /\ store = <<>>
    /\ now = 0
    /\ last = ZCall("none", <<>>, 0, Res(<<>>, NoValue, "none"), <<>>)
    /\ ref = EmptyDict
    /\ owner = <<>>
    /\ pcs = <<>>

NextZSet ==
    \/ \E k \in ZKeys, x \in Scores : Z_SetItem(k, x)
    \/ \E k \in ZKeys : Z_DelItem(k)
    \/ \E m \in ZMaps : Z_Update(m)
    \/ Z_Clear
    \/ \E k \in ZKeys : Z_GetItem(k)
    \/ \E scan \in R_zscan(store, TheZSet.name) : Z_Iter(scan)
    \/ \E scan \in R_zscan(store, TheZSet.name) : Z_Items(scan)
    \/ \E k \in ZKeys : Z_Index(k)

SpecZSet == InitZSet /\ [][NextZSet]_vars

\* C16: iteration over the keys, and over the items, goes in ascending
\* order of score whatever the order of insertion, and index(k) is the
\* ordinal position of k in that order, ValueError when k is absent.
C16_IterationInScoreOrder ==
    /\ last.op = "iter" =>
         \A i, j \in 1..Len(last.ret.val) :
             i < j => ref[last.ret.val[i]] <= ref[last.ret.val[j]]
    /\ last.op = "items" =>
         \A i, j \in 1..Len(last.ret.val) :
             i < j => last.ret.val[i][2] <= last.ret.val[j][2]
    /\ \A k \in ZKeys :
         LET ix == RZ_index(TheZSet, store, k)
         IN  IF k \notin DOMAIN ref THEN ix.exc = "ValueError"
             ELSE /\ ix.exc = "none"
                  /\ Cardinality({x \in DOMAIN ref : ref[x] < ref[k]}) <= ix.ret.val
                  /\ ix.ret.val <= Cardinality({x \in DOMAIN ref \ {k} : ref[x] <= ref[k]})

\* C17: s[k] = x makes k a member with score x; assigning to a present key
\* replaces the score and keeps len(s); update(m) sets the score of every
\* key of m and keeps the others; s[k] and del s[k] for an absent key raise
\* KeyError and change nothing.
C17_SortedSetIsMapping ==
    /\ RZ_len(TheZSet, store) = DictLen(ref)
    /\ \A k \in ZKeys :
         LET g == RZ_getitem(TheZSet, store, k)
             d == RZ_delitem(TheZSet, store, k)
         IN  /\ RZ_contains(TheZSet, store, k) = (k \in DOMAIN ref)
             /\ IF k \in DOMAIN ref
                THEN g.exc = "none" /\ g.ret = PyInt(ref[k]) /\ d.exc = "none"
                ELSE /\ g.exc = "KeyError" /\ g.store = store
                     /\ d.exc = "KeyError" /\ d.store = store
    /\ last.op = "setitem" =>
         /\ last.exc = "none"
         /\ RZ_getitem(TheZSet, store, last.key).ret = PyInt(last.arg)
         /\ RZ_contains(TheZSet, last.before, last.key) =>
                RZ_len(TheZSet, store) = RZ_len(TheZSet, last.before)
         /\ \A k \in ZKeys \ {last.key} :
                RZ_getitem(TheZSet, store, k) = [RZ_getitem(TheZSet, last.before, k)
                                                    EXCEPT !.store = store]
    /\ last.op = "update" =>
         \A k \in ZKeys \ last.key :
             RZ_getitem(TheZSet, store, k) = [RZ_getitem(TheZSet, last.before, k)
                                                 EXCEPT !.store = store]
    /\ (last.op = "delitem" /\ last.exc = "KeyError") => store = last.before

\* The score of a present key was replaced in a full sorted set.
C17_Witness ==
    /\ last.op = "setitem"
    /\ RZ_contains(TheZSet, last.before, last.key)
    /\ RZ_getitem(TheZSet, last.before, last.key).ret # PyInt(last.arg)
    /\ DictLen(ref) = Cardinality(ZKeys)

(***************************************************************************)
(* RedisTTLSet('foo', MaxTtl, time=lambda: t) under a clock that ticks,    *)
(* beside the expiry each item was last given.                             *)
(***************************************************************************)
TheTtlSet == RedisTTLSet(<<"foo">>, MaxTtl, "pickle")

TtlItems == {PyA, PyOne}

\* The backing sorted set: member to score.
Backing(s) == R_zset(s, TheTtlSet.name)

TtlCall(op, arg, r, before, at) ==
    [op |-> op, arg |-> arg, ret |-> r.ret, exc |-> r.exc, before |-> before, at |-> at]

T_Add(x) ==
    /\ LET r == TS_add(TheTtlSet, store, now, x)
       IN  /\ store' = r.store
           /\ last' = TtlCall("add", {x}, r, store, now)
    /\ ref' = DictPut(ref, x, now + TheTtlSet.ttl)
    /\ UNCHANGED <<deq, now, owner, pcs>>

T_Update(other) ==
    /\ LET r == TS_update(TheTtlSet, store, now, other)
       IN  /\ store' = r.store
           /\ last' = TtlCall("update", ItemsOf(other), r, store, now)
    /\ ref' = [k \in DOMAIN ref \cup ItemsOf(other) |->
                 IF k \in ItemsOf(other) THEN now + TheTtlSet.ttl ELSE ref[k]]
    /\ UNCHANGED <<deq, now, owner, pcs>>

T_Discard(x) ==
    /\ LET r == TS_discard(TheTtlSet, store, x)
       IN  /\ store' = r.store
           /\ last' = TtlCall("discard", {x}, r, store, now)
    /\ ref' = DictDel(ref, x)
    /\ UNCHANGED <<deq, now, owner, pcs>>

T_Clear ==
    /\ LET r == TS_clear(TheTtlSet, store)
       IN  /\ store' = r.store
           /\ last' = TtlCall("clear", {}, r, store, now)
    /\ ref' = EmptyDict
    /\ UNCHANGED <<deq, now, owner, pcs>>

T_Contains(x) ==
    /\ LET r == TS_contains(TheTtlSet, store, now, x)
       IN  /\ store' = r.store
           /\ last' = TtlCall("contains", {x}, r, store, now)
    /\ UNCHANGED <<deq, now, ref, owner, pcs>>

T_Len ==
    /\ LET r == TS_len(TheTtlSet, store, now)
       IN  /\ store' = r.store
           /\ last' = TtlCall("len", {}, r, store, now)
    /\ UNCHANGED <<deq, now, ref, owner, pcs>>

T_Iter(scan) ==
    /\ LET r == TS_iter(TheTtlSet, store, now, scan)
       IN  /\ store' = r.store
           /\ last' = TtlCall("iter", {}, r, store, now)
    /\ UNCHANGED <<deq, now, ref, owner, pcs>>

\* The test's clock t moves on; nothing is sent to the store.
T_Tick ==
    /\ now < MaxTime
    /\ now' = now + 1
    /\ last' = TtlCall("tick", {}, Res(store, NoValue, "none"), store, now + 1)
    /\ UNCHANGED <<deq, store, ref, owner, pcs>>

InitTtl ==
    /\ deq = DictEqIdle
    /\ store = <<>>
    /\ now = 0
    /\ last = TtlCall("none", {}, Res(<<>>, NoValue, "none"), <<>>, 0)
    /\ ref = EmptyDict
    /\ owner = <<>>
    /\ pcs = <<>>

NextTtl ==
    \/ \E x \in TtlItems : T_Add(x)
    \/ \E other \in SeqsUpTo(SUBSET TtlItems, 1) : T_Update(other)
    \/ \E x \in TtlItems : T_Discard(x)
    \/ T_Clear
    \/ \E x \in TtlItems : T_Contains(x)
    \/ T_Len
    \/ \E scan \in R_zscan(TS_cleanup(TheTtlSet, store, now), TheTtlSet.name) : T_Iter(scan)
    \/ T_Tick

SpecTtl == InitTtl /\ [][NextTtl]_vars

\* What an iteration started now yields, as a set, for some scan order.
IterNow ==
    LET scan == CHOOSE o \in R_zscan(TS_cleanup(TheTtlSet, store, now), TheTtlSet.name) : TRUE
        r == TS_iter(TheTtlSet, store, now, scan)
    IN  {r.ret.val[i] : i \in 1..Len(r.ret.val)}

\* C19: an item added at time t is reported by `in`, by len and by
\* iteration at every time now < t + ttl and is not reported once
\* now > t + ttl, unless it was added again; adding it again at t2 makes it
\* a member until t2 + ttl, and update() gives every item of the call the
\* same expiry.
C19_MemberUntilExpiry ==
    LET fresh == {x \in DOMAIN ref : ref[x] > now}
        notGone == {x \in DOMAIN ref : ref[x] >= now}
        n == TS_len(TheTtlSet, store, now).ret.val
    IN  /\ \A x \in TtlItems :
             LET c == TS_contains(TheTtlSet, store, now, x).ret.val
             IN  /\ x \in fresh => c
                 /\ x \notin notGone => ~c
        /\ Cardinality(fresh) <= n /\ n <= Cardinality(notGone)
        /\ fresh \subseteq IterNow /\ IterNow \subseteq notGone
        /\ last.op \in {"add", "update"} =>
             /\ last.exc = "none" \/ last.arg = {}
             /\ \A x \in last.arg :
                  Backing(store)[Dumps(TheTtlSet.serializer, x)] = last.at + TheTtlSet.ttl

\* An item was added again after its first expiry had passed while another
\* item, added with it by update, is expired.
C19_Witness ==
    /\ last.op = "add"
    /\ last.arg = {PyA}
    /\ last.at = MaxTime
    /\ PyOne \in DOMAIN ref
    /\ ref[PyOne] = MaxTtl
    /\ Dumps(TheTtlSet.serializer, PyA) \in DOMAIN Backing(last.before)
    /\ Backing(last.before)[Dumps(TheTtlSet.serializer, PyA)] = MaxTtl
    /\ TS_contains(TheTtlSet, store, now, PyA).ret.val
    /\ ~TS_contains(TheTtlSet, store, now, PyOne).ret.val

\* C20: expired members stay in the backing sorted set while only the
\* clock advances; after len(s) or an iteration the backing sorted set
\* holds no member whose expiry has passed, and every member whose expiry
\* is still in the future is as it was.
C20_CleanupOnLenAndIter ==
    /\ last.op = "tick" => store = last.before
    /\ last.op \in {"len", "iter"} =>
         /\ \A m \in DOMAIN Backing(store) : ~(Backing(store)[m] < last.at)
         /\ \A m \in DOMAIN Backing(last.before) :
              Backing(last.before)[m] > last.at =>
                  /\ m \in DOMAIN Backing(store)
                  /\ Backing(store)[m] = Backing(last.before)[m]

\* len(s) removed one expired member and kept one that was still fresh.
C20_Witness ==
    /\ last.op = "len"
    /\ DictLen(Backing(last.before)) = 2
    /\ DictLen(Backing(store)) = 1
    /\ last.ret = PyInt(1)
    /\ \E m \in DOMAIN Backing(last.before) : Backing(last.before)[m] < last.at

(***************************************************************************)
(* Writes with keys, items and scores that are not fit: a RedisDict, a     *)
(* RedisSortedSet, a RedisSet and a RedisTTLSet, each under its own name.  *)
(***************************************************************************)
WDict == RedisDict(<<"d">>, "pickle", "pickle")

WZSet == RedisSortedSet(<<"z">>, "pickle")

WSet == RedisSet(<<"s">>, "pickle")

WTtl == RedisTTLSet(<<"t">>, MaxTtl, "pickle")

\* The keys and items written: two that hash and one that does not.
WItems == {PyA, PyOne, PyNoHash}

\* The scores written: a number and 'baz'.
WScores == {PyNum(1), PyBaz}

WCall(op, bad, r, before) == [op |-> op, bad |-> bad, exc |-> r.exc, before |-> before]

W_DictSet(k, v) ==
    /\ LET r == RD_setitem(WDict, store, k, v)
       IN  /\ store' = r.store
           /\ last' = WCall("dict_setitem", ~Hashable(k), r, store)
    /\ UNCHANGED <<deq, now, ref, owner, pcs>>

W_ZSet(k, x) ==
    /\ LET r == RZ_setitem(WZSet, store, k, x)
       IN  /\ store' = r.store
           /\ last' = WCall("zset_setitem", ~Hashable(k) \/ ~x.num, r, store)
    /\ UNCHANGED <<deq, now, ref, owner, pcs>>

W_SetAdd(x) ==
    /\ LET r == RS_add(WSet, store, x)
       IN  /\ store' = r.store
           /\ last' = WCall("set_add", ~Hashable(x), r, store)
    /\ UNCHANGED <<deq, now, ref, owner, pcs>>

W_SetUpdate(others) ==
    /\ LET r == RS_update(WSet, store, others)
       IN  /\ store' = r.store
           /\ last' = WCall("set_update", \E x \in ItemsOf(others) : ~Hashable(x), r, store)
    /\ UNCHANGED <<deq, now, ref, owner, pcs>>

W_TtlAdd(x) ==
    /\ LET r == TS_add(WTtl, store, now, x)
       IN  /\ store' = r.store
           /\ last' = WCall("ttl_add", ~Hashable(x), r, store)
    /\ UNCHANGED <<deq, now, ref, owner, pcs>>

W_Discard(x) ==
    /\ store' = RS_discard(WSet, store, x).store
    /\ last' = WCall("set_discard", FALSE, Res(store, NoValue, "none"), store)
    /\ UNCHANGED <<deq, now, ref, owner, pcs>>

InitWrite ==
    /\ deq = DictEqIdle
    /\ store = <<>>
    /\ now = 0
    /\ last = WCall("none", FALSE, Res(<<>>, NoValue, "none"), <<>>)
    /\ ref = <<>>
    /\ owner = <<>>
    /\ pcs = <<>>

NextWrite ==
    \/ \E k \in WItems, v \in HashVals : W_DictSet(k, v)
    \/ \E k \in WItems, x \in WScores : W_ZSet(k, x)
    \/ \E x \in WItems : W_SetAdd(x)
    \/ \E others \in SeqsUpTo(SUBSET WItems, MaxElems) : W_SetUpdate(others)
    \/ \E x \in WItems : W_TtlAdd(x)
    \/ \E x \in WItems \ {PyNoHash} : W_Discard(x)

SpecWrite == InitWrite /\ [][NextWrite]_vars

Clients == {1, 2}

ListOf(c) == RedisList(<<"l">>, "pickle")

SetOf(c) == RedisSet(<<"s">>, "pickle")

DictOf(c) == RedisDict(<<"d">>, "pickle", "pickle")

ZSetOf(c) == RedisSortedSet(<<"z">>, "pickle")

ShareCall(op, c, writer, r) ==
    [op |-> op, client |-> c, writer |-> writer, ret |-> r.ret, exc |-> r.exc]

\* A write through the instances of client c: r is what the call yields
\* and newRef the reference content after the same call on Python values.
ShareWrite(c, r, newRef) ==
    /\ store' = r.store
    /\ last' = ShareCall("write", c, c, r)
    /\ ref' = newRef
    /\ UNCHANGED <<deq, now, owner, pcs>>

ShareRead(op, c, r) ==
    /\ last' = ShareCall(op, c, last.writer, r)
    /\ UNCHANGED <<deq, store, now, ref, owner, pcs>>

Sh_Append(c, v) ==
    /\ Len(ref.l) < MaxElems
    /\ ShareWrite(c, RL_append(ListOf(c), store, v), [ref EXCEPT !.l = Append(@, v)])

Sh_SetItem(c, v) ==
    ShareWrite(c, RL_setitem(ListOf(c), store, 0, v), [ref EXCEPT !.l = PySetItem(@, 0, v)])

Sh_Add(c, x) == ShareWrite(c, RS_add(SetOf(c), store, x), [ref EXCEPT !.s = @ \cup {x}])

Sh_Discard(c, x) == ShareWrite(c, RS_discard(SetOf(c), store, x), [ref EXCEPT !.s = @ \ {x}])

Sh_DictSet(c, v) ==
    ShareWrite(c, RD_setitem(DictOf(c), store, PyA, v), [ref EXCEPT !.d = DictPut(@, PyA, v)])

Sh_DictDel(c) ==
    ShareWrite(c, RD_delitem(DictOf(c), store, PyA), [ref EXCEPT !.d = DictDel(@, PyA)])

Sh_ZSet(c, x) ==
    ShareWrite(c, RZ_setitem(ZSetOf(c), store, PyA, PyNum(x)),
               [ref EXCEPT !.z = DictPut(@, PyA, x)])

Sh_ZDel(c) ==
    ShareWrite(c, RZ_delitem(ZSetOf(c), store, PyA), [ref EXCEPT !.z = DictDel(@, PyA)])

Sh_ReadList(c) == ShareRead("list", c, RL_iter(ListOf(c), store))

Sh_ReadSet(c) == ShareRead("set", c, RS_iter(SetOf(c), store))

Sh_ReadDict(c) == ShareRead("dict", c, RD_items(DictOf(c), store))

Sh_ReadZSet(c) == ShareRead("zset", c, RZ_getitem(ZSetOf(c), store, PyA))

InitShare ==
    /\ deq = DictEqIdle
    /\ store = <<>>
    /\ now = 0
    /\ last = ShareCall("none", 1, 1, Res(<<>>, NoValue, "none"))
    /\ ref = [l |-> <<>>, s |-> {}, d |-> EmptyDict, z |-> EmptyDict]
    /\ owner = <<>>
    /\ pcs = <<>>

NextShare ==
    \E c \in Clients :
        \/ \E v \in Elems : Sh_Append(c, v)
        \/ \E v \in Elems : Sh_SetItem(c, v)
        \/ \E x \in Elems : Sh_Add(c, x)
        \/ \E x \in Elems : Sh_Discard(c, x)
        \/ \E v \in HashVals : Sh_DictSet(c, v)
        \/ Sh_DictDel(c)
        \/ \E x \in Scores : Sh_ZSet(c, x)
        \/ Sh_ZDel(c)
        \/ Sh_ReadList(c)
        \/ Sh_ReadSet(c)
        \/ Sh_ReadDict(c)
        \/ Sh_ReadZSet(c)

SpecShare == InitShare /\ [][NextShare]_vars

\* C21: the wrappers keep no copy of the content: whichever instance made
\* the writes, a read through any instance bound to the same key gives the
\* content after the last completed write, for RedisList, RedisSet,
\* RedisDict and RedisSortedSet.
C21_ReadsSeeWritesOfOthers ==
    /\ \A c \in Clients :
         /\ RL_iter(ListOf(c), store) = Res(store, PyList(ref.l), "none")
         /\ RS_iter(SetOf(c), store) = Res(store, PySet(ref.s), "none")
         /\ RD_items(DictOf(c), store) = Res(store, PyDict(ref.d), "none")
         /\ RZ_len(ZSetOf(c), store) = DictLen(ref.z)
         /\ PyA \in DOMAIN ref.z =>
                RZ_getitem(ZSetOf(c), store, PyA) = Res(store, PyInt(ref.z[PyA]), "none")
         /\ PyA \notin DOMAIN ref.z => RZ_getitem(ZSetOf(c), store, PyA).exc = "KeyError"
    /\ last.op = "list" => last.ret = PyList(ref.l)
    /\ last.op = "set" => last.ret = PySet(ref.s)
    /\ last.op = "dict" => last.ret = PyDict(ref.d)

\* Client 2 read the list that client 1 wrote last, every collection
\* holding something.
C21_Witness ==
    /\ last.op = "list"
    /\ last.client = 2
    /\ last.writer = 1
    /\ Len(ref.l) = MaxElems
    /\ ref.s # {}
    /\ DictLen(ref.d) = 1
    /\ DictLen(ref.z) = 1

(***************************************************************************)
(* ObjectRedis.set of a collection, command by command.  set hands         *)
(* new_list, new_set or new_hash to redis.transaction(func, key), which    *)
(* sends WATCH and calls func(pipe); func never calls pipe.multi(), so     *)
(* every command of the wrapper it builds on pipe is sent and executed at  *)
(* once.  Another client reads the key between the commands.               *)
(***************************************************************************)
TheObj == ObjectRedis(NsNone, "pickle", "pickle", FALSE, TtlNone)

TheKey == PyA

\* What a client sees of the key in one look: the kind and content of what
\* d[k] returns and the time the key has left (-1 for no expiry).
SeenContent(c, ttl) == [kind |-> c.ret.kind, val |-> c.ret.val, ttl |-> ttl]

SeenThrough(r, s) ==
    IF r.exc # "none" THEN [kind |-> "absent", val |-> <<>>, ttl |-> -2]
    ELSE SeenContent(WrapperContent(r.ret, s), R_ttl(s, now, OR_ns(TheObj, TheKey)))

Seen(s) == SeenThrough(OR_getitem(TheObj, s, now, TheKey), s)

\* What the key shows once value is stored with ttl.
Stored(value, ttl) ==
    [kind |-> value.kind, val |-> value.val, ttl |-> IF ttl = TtlNone THEN -1 ELSE ttl]

SameSeen(a, b) == a.kind = b.kind /\ a.ttl = b.ttl /\ a.val = b.val

SetIdle == [pc |-> "idle", value |-> NoValue, ttl |-> TtlNone, todo |-> {}]

SetEnds(s) ==
    /\ pcs' = SetIdle
    /\ last' = [op |-> "set", seen |-> Seen(s)]
    /\ ref' = [ref EXCEPT !.old = ref.new]

SetGoesOn(pc, todo) ==
    /\ pcs' = [pcs EXCEPT !.pc = pc, !.todo = todo]
    /\ last' = [op |-> "command", seen |-> last.seen]
    /\ ref' = ref

\* set (98-106) up to redis.transaction: WATCH changes nothing.
X_Begin(value, ttl) ==
    /\ pcs.pc = "idle"
    /\ pcs' = [pc |-> "clear", value |-> value, ttl |-> ttl, todo |-> {}]
    /\ ref' = [old |-> Seen(store), new |-> Stored(value, ttl)]
    /\ last' = [op |-> "command", seen |-> last.seen]
    /\ UNCHANGED <<deq, store, now, owner>>

\* rl.clear(), rs.clear(), rd.clear() (112, 121, 130): DEL.
X_Clear ==
    /\ pcs.pc = "clear"
    /\ store' = RL_clear(RedisList(OR_ns(TheObj, TheKey), TheObj.serializer), store).store
    /\ SetGoesOn("fill", IF pcs.value.kind = "dict" THEN DOMAIN pcs.value.val ELSE {})
    /\ UNCHANGED <<deq, now, owner>>

SetFilled ==
    IF pcs.ttl = TtlNone THEN SetEnds(store') ELSE SetGoesOn("expire", {})

\* rl.extend(value) (113): one RPUSH; rs.update(value) (122): one SADD.
X_Fill ==
    /\ pcs.pc = "fill"
    /\ pcs.value.kind \in {"list", "set"}
    /\ store' = IF pcs.value.kind = "list"
                THEN RL_extend(RedisList(OR_ns(TheObj, TheKey), TheObj.serializer),
                               store, pcs.value.val).store
                ELSE RS_update(RedisSet(OR_ns(TheObj, TheKey), TheObj.serializer),
                               store, <<pcs.value.val>>).store
    /\ SetFilled
    /\ UNCHANGED <<deq, now, owner>>

\* rd.update(value) (131): one HSET for each field, in the order the
\* mapping yields them.
X_FillField(f) ==
    /\ pcs.pc = "fill"
    /\ pcs.value.kind = "dict"
    /\ f \in pcs.todo
    /\ store' = RD_setitem(RedisDict(OR_ns(TheObj, TheKey), TheObj.serializer,
                                      TheObj.serializer),
                           store, f, pcs.value.val[f]).store
    /\ IF pcs.todo = {f} THEN SetFilled ELSE SetGoesOn("fill", pcs.todo \ {f})
    /\ UNCHANGED <<deq, now, owner>>

\* pipe.expire(bkey, ttl) (115-116, 124-125, 133-134).
X_Expire ==
    /\ pcs.pc = "expire"
    /\ store' = R_expire(store, now, OR_ns(TheObj, TheKey), pcs.ttl)
    /\ SetEnds(store')
    /\ UNCHANGED <<deq, now, owner>>

\* Another client looks at the key.
X_Read ==
    /\ last' = [op |-> "read", seen |-> Seen(store)]
    /\ UNCHANGED <<deq, store, now, ref, owner, pcs>>

\* The values with something in them.
FullListVals == {v \in ListVals : v.val # <<>>}

FullSetVals == {v \in SetVals : v.val # {}}

FullDictVals == {v \in DictVals : DOMAIN v.val # {}}

InitReplace ==
    /\ deq = DictEqIdle
    /\ store = <<>>
    /\ now = 0
    /\ last = [op |-> "none", seen |-> Seen(<<>>)]
    /\ ref = [old |-> Seen(<<>>), new |-> Seen(<<>>)]
    /\ owner = <<>>
    /\ pcs = SetIdle

NextReplace ==
    \/ \E ttl \in {TtlNone, MaxTtl} :
           \/ \E v \in FullListVals : X_Begin(v, ttl)
           \/ \E v \in FullSetVals : X_Begin(v, ttl)
           \/ \E v \in FullDictVals : X_Begin(v, ttl)
    \/ X_Clear
    \/ X_Fill
    \/ \E f \in Elems : X_FillField(f)
    \/ X_Expire
    \/ X_Read

SpecReplace == InitReplace /\ [][NextReplace]_vars

\* C22: ObjectRedis.set of a collection replaces the key's content as one
\* transaction: whenever another client looks at the key it sees the whole
\* content the key had before the call or the whole new content with its
\* time-to-live, never an absent or partly filled collection.
C22_ReplaceIsOneTransaction ==
    last.op = "read" => SameSeen(last.seen, ref.old) \/ SameSeen(last.seen, ref.new)

(***************************************************************************)
(* RedisList.insert and RedisList.pop(i), command by command, with another *)
(* client working on the same list.  Both run __insert and __pop through   *)
(* redis.transaction(func, name) without pipe.multi(), so their commands   *)
(* are executed one at a time; del a[i] queues its two commands on a       *)
(* pipeline and execute() runs them as one MULTI/EXEC.                     *)
(***************************************************************************)
NoOther == [op |-> "none", index |-> 0, value |-> PyNone]

EditIdle ==
    [pc |-> "idle", op |-> "none", index |-> 0, value |-> PyNone, current |-> Nil,
     before |-> <<>>, other |-> NoOther]

MyToken == "rnd1"

OtherToken == "rnd2"

IsToken(b) ==
    \E t \in TokenChars : b \in {DeletingToken(t), InsertingToken(t), PopToken(t)}

HasToken(raw) == \E i \in DOMAIN raw : IsToken(raw[i])

Raw(s) == R_lrange(s, TheList.name, 0, RL_len(TheList, s))

\* The call of this client as one step.
Mine(m, s) ==
    IF m.op = "insert" THEN RL_insert(TheList, s, m.index, m.value, MyToken)
    ELSE RL_pop(TheList, s, m.index, MyToken)

\* The call of the other client; each is one command or one MULTI/EXEC.
Theirs(o, s) ==
    CASE o.op = "append" -> RL_append(TheList, s, o.value)
      [] o.op = "pop" -> RL_pop(TheList, s, 0, OtherToken)
      [] o.op = "setitem" -> RL_setitem(TheList, s, o.index, o.value)
      [] o.op = "delitem" -> RL_delitem(TheList, s, o.index, OtherToken)
      [] OTHER -> Res(s, NoValue, "none")

EditGoesOn(pc) ==
    /\ pcs' = [pcs EXCEPT !.pc = pc]
    /\ last' = [op |-> "command", call |-> pcs, after |-> store', ret |-> NoValue,
                exc |-> "none", raw |-> <<>>]

EditEnds(ret, exc) ==
    /\ pcs' = EditIdle
    /\ last' = [op |-> "done", call |-> pcs, after |-> store', ret |-> ret, exc |-> exc,
                raw |-> <<>>]

\* insert (389-391) and pop (426-428) up to redis.transaction.
G_Begin(op, index, value) ==
    /\ pcs.pc = "idle"
    /\ op = "insert" => Len(Raw(store)) < MaxListLen
    /\ pcs' = [EditIdle EXCEPT !.pc = IF op = "insert" THEN "llen" ELSE "lindex",
                               !.op = op, !.index = index, !.value = value,
                               !.before = store]
    /\ last' = [op |-> "begin", call |-> pcs', after |-> store, ret |-> NoValue,
                exc |-> "none", raw |-> <<>>]
    /\ UNCHANGED <<deq, store, now, ref, owner>>

\* __insert 379: index >= pipe.llen(name).
G_Llen ==
    /\ pcs.pc = "llen"
    /\ store' = store
    /\ EditGoesOn(IF pcs.index >= R_llen(store, TheList.name) THEN "rpush" ELSE "lindex")
    /\ UNCHANGED <<deq, now, ref, owner>>

\* __insert 380.
G_Rpush ==
    /\ pcs.pc = "rpush"
    /\ store' = R_rpush(store, TheList.name,
                        <<Dumps(TheList.serializer, pcs.value)>>).store
    /\ EditEnds(NoValue, "none")
    /\ UNCHANGED <<deq, now, ref, owner>>

\* __insert 382 and __pop 408-410.
G_Lindex ==
    /\ pcs.pc = "lindex"
    /\ store' = store
    /\ IF pcs.op = "pop" /\ R_lindex(store, TheList.name, pcs.index).nil
       THEN EditEnds(NoValue, "IndexError")
       ELSE /\ pcs' = [pcs EXCEPT !.pc = "lset",
                                  !.current = R_lindex(store, TheList.name, pcs.index)]
            /\ last' = [op |-> "command", call |-> pcs, after |-> store, ret |-> NoValue,
                        exc |-> "none", raw |-> <<>>]
    /\ UNCHANGED <<deq, now, ref, owner>>

EditToken == IF pcs.op = "insert" THEN InsertingToken(MyToken) ELSE PopToken(MyToken)

\* __insert 384 and __pop 414: an index out of range is an error reply.
G_Lset ==
    /\ pcs.pc = "lset"
    /\ store' = R_lset(store, TheList.name, pcs.index, EditToken).store
    /\ IF R_lset(store, TheList.name, pcs.index, EditToken).err # "none"
       THEN EditEnds(NoValue, "ResponseError")
       ELSE EditGoesOn(IF pcs.op = "insert" THEN "before" ELSE "lrem")
    /\ UNCHANGED <<deq, now, ref, owner>>

\* __insert 385.
G_Before ==
    /\ pcs.pc = "before"
    /\ store' = R_linsert(store, TheList.name, "BEFORE", EditToken,
                          Dumps(TheList.serializer, pcs.value)).store
    /\ EditGoesOn("after")
    /\ UNCHANGED <<deq, now, ref, owner>>

\* __insert 386: current is the element read at 382.
G_After ==
    /\ pcs.pc = "after"
    /\ ~pcs.current.nil
    /\ store' = R_linsert(store, TheList.name, "AFTER", EditToken, pcs.current.val).store
    /\ EditGoesOn("lrem")
    /\ UNCHANGED <<deq, now, ref, owner>>

\* __insert 387 and __pop 415; pop (429-432) decodes what __pop read.
G_Lrem ==
    /\ pcs.pc = "lrem"
    /\ store' = R_lrem1(store, TheList.name, EditToken).store
    /\ IF pcs.op = "insert" THEN EditEnds(NoValue, "none")
       ELSE EditEnds(Scalar(Loads(TheList.serializer, pcs.current.val).obj), "none")
    /\ UNCHANGED <<deq, now, ref, owner>>

\* One call of the other client; at most one while a call of this client
\* is under way.
G_Other(o) ==
    /\ pcs.other.op = "none"
    /\ o.op = "append" => Len(Raw(store)) < MaxListLen
    /\ store' = Theirs(o, store).store
    /\ pcs' = IF pcs.pc = "idle" THEN pcs ELSE [pcs EXCEPT !.other = o]
    /\ last' = [op |-> "other", call |-> pcs, after |-> store', ret |-> NoValue,
                exc |-> Theirs(o, store).exc, raw |-> <<>>]
    /\ UNCHANGED <<deq, now, ref, owner>>

\* The other client reads the list: what LRANGE hands to the decoder.
G_Read ==
    /\ last' = [op |-> "read", call |-> pcs, after |-> store, ret |-> NoValue,
                exc |-> RL_iter(TheList, store).exc, raw |-> Raw(store)]
    /\ UNCHANGED <<deq, store, now, ref, owner, pcs>>

InitListRace ==
    /\ deq = DictEqIdle
    /\ store = <<>>
    /\ now = 0
    /\ last = [op |-> "none", call |-> EditIdle, after |-> <<>>, ret |-> NoValue,
               exc |-> "none", raw |-> <<>>]
    /\ ref = <<>>
    /\ owner = <<>>
    /\ pcs = EditIdle

RaceIdx == 0..(MaxListLen - 1)

NextListRace ==
    \/ \E i \in RaceIdx, v \in Elems : G_Begin("insert", i, v)
    \/ \E i \in RaceIdx \ {0} : G_Begin("pop", i, PyNone)
    \/ G_Llen
    \/ G_Rpush
    \/ G_Lindex
    \/ G_Lset
    \/ G_Before
    \/ G_After
    \/ G_Lrem
    \/ \E v \in Elems : G_Other([op |-> "append", index |-> 0, value |-> v])
    \/ G_Other([op |-> "pop", index |-> 0, value |-> PyNone])
    \/ \E i \in RaceIdx, v \in Elems : G_Other([op |-> "setitem", index |-> i, value |-> v])
    \/ \E i \in RaceIdx : G_Other([op |-> "delitem", index |-> i, value |-> PyNone])
    \/ G_Read

SpecListRace == InitListRace /\ [][NextListRace]_vars

SameOutcome(r, after) ==
    /\ after = last.after
    /\ r.ret = last.ret
    /\ r.exc = last.exc

MineAfterTheirs(m, o, s) == SameOutcome(Mine(m, Theirs(o, s).store), Mine(m, Theirs(o, s).store).store)

TheirsAfterMine(m, o, s) == SameOutcome(Mine(m, s), Theirs(o, Mine(m, s).store).store)

\* C23: when insert(i, v) or pop(i) of one client runs while another client
\* changes the same list, the list left behind and what pop returns are
\* those of running the two calls one after the other, in one of the two
\* orders.
C23_EditsAreSerializable ==
    last.op = "done" =>
        \/ MineAfterTheirs(last.call, last.call.other, last.call.before)
        \/ TheirsAfterMine(last.call, last.call.other, last.call.before)

\* C24: the tokens that insert, pop(i) and del a[i] write are never seen:
\* no read of the list by another client is handed a token, and when one of
\* these calls ends, with or without an error, the list holds no token.
C24_TokensAreNeverSeen ==
    /\ last.op = "read" => ~HasToken(last.raw)
    /\ last.op \in {"done", "other"} => ~HasToken(Raw(last.after))

(***************************************************************************)
(* RedisTTLSet.__contains__, command by command, with another client       *)
(* adding to the same set and the clock moving.                            *)
(***************************************************************************)
TestIdle == [pc |-> "idle", item |-> PyNone, expiry |-> 0]

\* The end of a membership test with its answer.
TestEnds(op, x, answer, before) ==
    /\ pcs' = TestIdle
    /\ last' = TtlCall(op, {x}, Res(store', PyBool(answer), "none"), before, now)

\* __contains__ 96-98: dict.get(item, None) is one ZSCORE; ref keeps the
\* time of that read.
K_Get(x) ==
    /\ pcs.pc = "idle"
    /\ store' = store
    /\ IF RZ_getitem(TheTtlSet.dict, store, x).exc = "KeyError"
       THEN TestEnds("contains", x, FALSE, store)
       ELSE /\ pcs' = [pc |-> "time", item |-> x,
                       expiry |-> RZ_getitem(TheTtlSet.dict, store, x).ret.val]
            /\ last' = TtlCall("get", {x}, Res(store, NoValue, "none"), store, now)
    /\ ref' = [at |-> now]
    /\ UNCHANGED <<deq, now, owner>>

\* __contains__ 99 and 102: the score read before against the time now.
K_Time ==
    /\ pcs.pc = "time"
    /\ store' = store
    /\ IF pcs.expiry < now
       THEN /\ pcs' = [pcs EXCEPT !.pc = "discard"]
            /\ last' = TtlCall("time", {pcs.item}, Res(store, NoValue, "none"), store, now)
       ELSE TestEnds("contains", pcs.item, TRUE, store)
    /\ UNCHANGED <<deq, now, ref, owner>>

\* __contains__ 100-101: discard is one ZREM.
K_Discard ==
    /\ pcs.pc = "discard"
    /\ store' = TS_discard(TheTtlSet, store, pcs.item).store
    /\ TestEnds(IF pcs.expiry < ref.at THEN "discarded" ELSE "discarded_late",
                pcs.item, FALSE, store)
    /\ UNCHANGED <<deq, now, ref, owner>>

\* add by the other client.
K_Add(x) ==
    /\ store' = TS_add(TheTtlSet, store, now, x).store
    /\ last' = TtlCall("add", {x}, TS_add(TheTtlSet, store, now, x), store, now)
    /\ UNCHANGED <<deq, now, ref, owner, pcs>>

K_Tick ==
    /\ now < MaxTime
    /\ now' = now + 1
    /\ last' = TtlCall("tick", {}, Res(store, NoValue, "none"), store, now + 1)
    /\ UNCHANGED <<deq, store, ref, owner, pcs>>

InitTtlRace ==
    /\ deq = DictEqIdle
    /\ store = <<>>
    /\ now = 0
    /\ last = TtlCall("none", {}, Res(<<>>, NoValue, "none"), <<>>, 0)
    /\ ref = [at |-> 0]
    /\ owner = <<>>
    /\ pcs = TestIdle

NextTtlRace ==
    \/ \E x \in TtlItems : K_Get(x)
    \/ K_Time
    \/ K_Discard
    \/ \E x \in TtlItems : K_Add(x)
    \/ K_Tick

SpecTtlRace == InitTtlRace /\ [][NextTtlRace]_vars

\* The score of x in the backing sorted set of s is later than t.
FreshIn(s, x, t) ==
    /\ RZ_getitem(TheTtlSet.dict, s, x).exc = "none"
    /\ RZ_getitem(TheTtlSet.dict, s, x).ret.val > t

\* C25: an item whose expiry another client's add() has moved to a time
\* still to come is not removed by a membership test that read the item's
\* earlier score, already expired when it was read.
C25_RefreshedItemIsKept ==
    \A x \in TtlItems :
        (last.op = "discarded" /\ last.arg = {x} /\ FreshIn(last.before, x, last.at)) =>
            FreshIn(store, x, last.at)

\* C26: at every time, len(s), the number of items x with `x in s` and the
\* number of items an iteration yields are the same, also when the time is
\* exactly an item's expiry.
C26_OneMembership ==
    /\ TS_len(TheTtlSet, store, now).ret.val =
           Cardinality({x \in TtlItems : TS_contains(TheTtlSet, store, now, x).ret.val})
    /\ TS_len(TheTtlSet, store, now).ret.val = Cardinality(IterNow)

(***************************************************************************)
(* Dicts stored through ObjectRedis instances of every pair of codecs.     *)
(***************************************************************************)
CodecInst ==
    <<ObjectRedis(NsNone, "pickle", "pickle", FALSE, TtlNone),
      ObjectRedis(NsNone, "pickle", "json", FALSE, TtlNone),
      ObjectRedis(NsNone, "json", "pickle", FALSE, TtlNone),
      ObjectRedis(NsNone, "json", "json", FALSE, TtlNone)>>

CodecIdx == DOMAIN CodecInst

Q_Set(i, k, v) ==
    /\ store' = OR_set(CodecInst[i], store, now, k, v, TtlNone).store
    /\ last' = CallWith("set", i, k, OR_set(CodecInst[i], store, now, k, v, TtlNone).exc,
                        v, TtlNone)
    /\ UNCHANGED <<deq, now, ref, owner, pcs>>

\* d[k][f] through instance i.
FieldOf(w, s, f) ==
    RD_getitem(RedisDict(w.val.name, w.val.serializer, w.val.key_serializer), s, f)

FieldsOf(w, s) ==
    RD_iter(RedisDict(w.val.name, w.val.serializer, w.val.key_serializer), s)

Q_GetField(i, k, f) ==
    /\ OR_getitem(CodecInst[i], store, now, k).exc = "none"
    /\ last' = CallWith("getfield", i, k,
                        FieldOf(OR_getitem(CodecInst[i], store, now, k).ret, store, f).exc,
                        FieldOf(OR_getitem(CodecInst[i], store, now, k).ret, store, f).ret,
                        TtlNone)
    /\ UNCHANGED <<deq, store, now, ref, owner, pcs>>

Q_DelItem(i, k) ==
    /\ store' = OR_delitem(CodecInst[i], store, k).store
    /\ last' = Call("delitem", i, k, OR_delitem(CodecInst[i], store, k).exc)
    /\ UNCHANGED <<deq, now, ref, owner, pcs>>

InitCodec ==
    /\ deq = DictEqIdle
    /\ store = <<>>
    /\ now = 0
    /\ last = NoCall
    /\ ref = EmptyDict
    /\ owner = <<>>
    /\ pcs = <<>>

NextCodec ==
    \/ \E i \in CodecIdx, k \in CollKeys, v \in FullDictVals : Q_Set(i, k, v)
    \/ \E i \in CodecIdx, k \in CollKeys, f \in Elems : Q_GetField(i, k, f)
    \/ \E i \in CodecIdx, k \in CollKeys : Q_DelItem(i, k)

SpecCodec == InitCodec /\ [][NextCodec]_vars

\* The wrapper w over store s holds exactly the mapping m.
HoldsMapping(w, s, m) ==
    /\ w.kind = "RedisDict"
    /\ FieldsOf(w, s).exc = "none"
    /\ FieldsOf(w, s).ret.val = DOMAIN m
    /\ \A f \in DOMAIN m :
           FieldOf(w, s, f).exc = "none" /\ FieldOf(w, s, f).ret = Scalar(m[f])

\* C27: for every pair of serializer and key_serializer, equal or not,
\* after d[k] = m the wrapper d[k] gives m[f] for every field f of m and
\* iterates exactly the fields of m.
C27_DictRoundTripsForEveryCodecPair ==
    last.op = "set" =>
        /\ last.exc = "none"
        /\ OR_getitem(CodecInst[last.inst], store, now, last.key).exc = "none"
        /\ HoldsMapping(OR_getitem(CodecInst[last.inst], store, now, last.key).ret,
                        store, last.val.val)

\* C28: every list, set or dict, the empty one included, can be assigned:
\* d[k] = v raises nothing, then k is in d and d[k] is a wrapper of v's kind
\* whose content is v.
C28_EmptyCollectionsRoundTrip ==
    (last.op = "set" /\ last.val.kind \in {"list", "set", "dict"}) =>
        /\ last.exc = "none"
        /\ OR_contains(ObjInst[last.inst], store, last.key)
        /\ ReadsBack(ObjInst[last.inst], last.key, last.val)

(***************************************************************************)
(* ObjectRedis.__getitem__ as its two commands, TYPE and GET, with another *)
(* client writing and deleting the key and the clock of the store moving.  *)
(***************************************************************************)
ReadIdle == [pc |-> "idle", inst |-> 1, rtype |-> "none"]

ReadCall(op, i, rtype, r, before) ==
    [op |-> op, inst |-> i, rtype |-> rtype, ret |-> r.ret, exc |-> r.exc,
     before |-> before, at |-> now]

\* __getitem__ 61-62: the type query.
V_Type(i, k) ==
    /\ pcs.pc = "idle"
    /\ pcs' = [pc |-> "typed", inst |-> i, rtype |-> R_type(store, OR_ns(ObjInst[i], k))]
    /\ last' = ReadCall("type", i, pcs'.rtype, Res(store, NoValue, "none"), store)
    /\ UNCHANGED <<deq, store, now, ref, owner>>

\* __getitem__ 63-80: what follows the type query.
V_Fetch(k) ==
    /\ pcs.pc = "typed"
    /\ store' = OR_getitem_typed(ObjInst[pcs.inst], store, now, k, pcs.rtype).store
    /\ last' = ReadCall("getitem", pcs.inst, pcs.rtype,
                        OR_getitem_typed(ObjInst[pcs.inst], store, now, k, pcs.rtype), store)
    /\ pcs' = ReadIdle
    /\ UNCHANGED <<deq, now, ref, owner>>

\* The other client stores a scalar: one SET or SETEX.
V_Set(i, k, v, ttl) ==
    /\ store' = OR_set(ObjInst[i], store, now, k, v, ttl).store
    /\ last' = ReadCall("set", i, "none", OR_set(ObjInst[i], store, now, k, v, ttl), store)
    /\ UNCHANGED <<deq, now, ref, owner, pcs>>

\* The other client deletes the key.
V_Del(i, k) ==
    /\ store' = OR_delitem(ObjInst[i], store, k).store
    /\ last' = ReadCall("delitem", i, "none", OR_delitem(ObjInst[i], store, k), store)
    /\ UNCHANGED <<deq, now, ref, owner, pcs>>

\* The clock of the store advances; the store drops what has expired.
V_Tick ==
    /\ now < MaxTime
    /\ now' = now + 1
    /\ store' = Live(store, now + 1)
    /\ last' = [op |-> "tick", inst |-> 1, rtype |-> "none", ret |-> NoValue,
                exc |-> "none", before |-> store, at |-> now + 1]
    /\ UNCHANGED <<deq, ref, owner, pcs>>

InitRead ==
    /\ deq = DictEqIdle
    /\ store = <<>>
    /\ now = 0
    /\ last = [op |-> "none", inst |-> 1, rtype |-> "none", ret |-> NoValue,
               exc |-> "none", before |-> <<>>, at |-> 0]
    /\ ref = EmptyDict
    /\ owner = <<>>
    /\ pcs = ReadIdle

NextRead ==
    \/ \E i \in ObjIdx, k \in CollKeys : V_Type(i, k)
    \/ \E k \in CollKeys : V_Fetch(k)
    \/ \E i \in ObjIdx, k \in CollKeys, v \in ScalarVals, ttl \in Ttls : V_Set(i, k, v, ttl)
    \/ \E i \in ObjIdx, k \in CollKeys : V_Del(i, k)
    \/ V_Tick

SpecRead == InitRead /\ [][NextRead]_vars

\* The last step ended a read of k whose type query saw a string that was
\* gone when the value was fetched.
Vanished(k) ==
    /\ last.op = "getitem"
    /\ last.rtype = "string"
    /\ R_type(last.before, OR_ns(ObjInst[last.inst], k)) = "none"

\* What a read of an absent key k through o at time t is: KeyError and
\* nothing stored without a missing function, else missing(k), stored with
\* the time-to-live missing_ttl(k).
IsMiss(o, k, t, before) ==
    IF ~o.missing
    THEN last.exc = "KeyError" /\ store = before
    ELSE /\ last.exc = "none"
         /\ last.ret = MissingValue(k)
         /\ store = OR_set(o, before, t, k, MissingValue(k), o.missing_ttl).store
         /\ R_ttl(store, t, OR_ns(o, k)) = IF o.missing_ttl = TtlNone THEN -1 ELSE o.missing_ttl

\* C29: when a key holding a scalar is deleted or expires between the type
\* query and the fetch of __getitem__, the read is a miss like that of an
\* absent key: KeyError, or the memoized missing(k); it never returns None.
C29_VanishedKeyIsAMiss ==
    \A k \in CollKeys :
        Vanished(k) =>
            /\ IsMiss(ObjInst[last.inst], k, last.at, last.before)
            /\ last.exc = "none" => last.ret # Scalar(PyNone)

\* A read through the instance with a missing function found the string
\* gone and memoized missing(k).
C29_Witness ==
    /\ Vanished(PyA)
    /\ ObjInst[last.inst].missing
    /\ ObjInst[last.inst].missing_ttl = MaxTtl
    /\ last.ret = MissingValue(PyA)
    /\ R_type(store, OR_ns(ObjInst[last.inst], PyA)) = "string"

(***************************************************************************)
(* RedisList.index with its range arguments.                               *)
(***************************************************************************)
N_Index(v, start, stop) ==
    /\ store' = RL_index(TheList, store, v, start, Some(stop)).store
    /\ last' = [op |-> "index_range", start |-> start, stop |-> stop, arg |-> v,
                ret |-> RL_index(TheList, store, v, start, Some(stop)).ret,
                exc |-> RL_index(TheList, store, v, start, Some(stop)).exc,
                before |-> Decoded(store)]
    /\ UNCHANGED <<deq, now, ref, owner, pcs>>

RangeIdx == 0..MaxListLen

NextListRange ==
    \/ \E v \in Elems : L_Append(v)
    \/ L_Clear
    \/ \E v \in Sought, start \in RangeIdx, stop \in RangeIdx : N_Index(v, start, stop)

SpecListRange == InitList /\ [][NextListRange]_vars

\* The positions of v in xs, counted from 0 at the head, from start up to
\* but not including stop.
PositionsIn(xs, v, start, stop) ==
    {i \in 0..(Len(xs) - 1) : start <= i /\ i < stop /\ xs[i + 1] = v}

Smallest(ps) == CHOOSE i \in ps : \A j \in ps : i <= j

\* C30: index(v, start, stop) returns the smallest position i, counted from
\* the head of the list, with start <= i < stop and a[i] == v, and raises
\* ValueError when there is none.
C30_IndexHonoursItsRange ==
    last.op = "index_range" =>
        IF PositionsIn(last.before, last.arg, last.start, last.stop) = {}
        THEN last.exc = "ValueError"
        ELSE /\ last.exc = "none"
             /\ last.ret =
                    PyInt(Smallest(PositionsIn(last.before, last.arg, last.start, last.stop)))

(***************************************************************************)
(* _dict_eq with the body of its loop in three parts, so that the stores   *)
(* of unmatched items are seen between the statements too.                 *)
(***************************************************************************)
\* A faulty variant of lines 296-308: a key that both iterators yield together
\* is stored in am.
DictEqTakeA_StoresEqual(st) ==
    IF st.a[st.bi][1] = st.b[st.bi][1]
    THEN IF st.a[st.bi][2] # st.b[st.bi][2]
         THEN [st EXCEPT !.pc = "done", !.ret = FALSE]
         ELSE [st EXCEPT !.pc = "guard",
                         !.am = DictPut(st.am, st.a[st.bi][1], st.a[st.bi][2])]
    ELSE IF st.a[st.bi][1] \in DOMAIN st.bm
    THEN IF st.bm[st.a[st.bi][1]] = st.a[st.bi][2]
         THEN [st EXCEPT !.pc = "mid", !.bm = DictDel(st.bm, st.a[st.bi][1])]
         ELSE [st EXCEPT !.pc = "done", !.ret = FALSE]
    ELSE [st EXCEPT !.pc = "mid", !.am = DictPut(st.am, st.a[st.bi][1], st.a[st.bi][2])]

\* Lines 296-308: the next pair of each iterator; equal keys compare their
\* values, else ak is matched against bm or stored in am.
DictEqTakeA(st) ==
    IF st.a[st.bi][1] = st.b[st.bi][1]
    THEN IF st.a[st.bi][2] # st.b[st.bi][2]
         THEN [st EXCEPT !.pc = "done", !.ret = FALSE]
         ELSE [st EXCEPT !.pc = "guard"]
    ELSE IF st.a[st.bi][1] \in DOMAIN st.bm
    THEN IF st.bm[st.a[st.bi][1]] = st.a[st.bi][2]
         THEN [st EXCEPT !.pc = "mid", !.bm = DictDel(st.bm, st.a[st.bi][1])]
         ELSE [st EXCEPT !.pc = "done", !.ret = FALSE]
    ELSE [st EXCEPT !.pc = "mid", !.am = DictPut(st.am, st.a[st.bi][1], st.a[st.bi][2])]

\* Lines 309-315: bk is matched against am or stored in bm.
DictEqTakeB(st) ==
    IF st.b[st.bi][1] \in DOMAIN st.am
    THEN IF st.am[st.b[st.bi][1]] = st.b[st.bi][2]
         THEN [st EXCEPT !.pc = "guard", !.am = DictDel(st.am, st.b[st.bi][1])]
         ELSE [st EXCEPT !.pc = "done", !.ret = FALSE]
    ELSE [st EXCEPT !.pc = "guard", !.bm = DictPut(st.bm, st.b[st.bi][1], st.b[st.bi][2])]

\* A faulty variant of lines 316-317: the guard allows half of size.
DictEqGuard_Half(st) ==
    IF 2 * (DictLen(st.am) + DictLen(st.bm)) > Len(st.a)
    THEN [st EXCEPT !.pc = "done", !.ret = FALSE]
    ELSE [st EXCEPT !.pc = "loop", !.bi = st.bi + 1]

\* Lines 316-317: the size guard that ends every pass.
DictEqGuard(st) ==
    IF DictLen(st.am) + DictLen(st.bm) > Len(st.a)
    THEN [st EXCEPT !.pc = "done", !.ret = FALSE]
    ELSE [st EXCEPT !.pc = "loop", !.bi = st.bi + 1]

F_TakeA ==
    /\ deq.pc = "loop"
    /\ deq.bi <= Len(deq.a)
    /\ deq' = DictEqTakeA(deq)

F_TakeB ==
    /\ deq.pc = "mid"
    /\ deq' = DictEqTakeB(deq)

F_Guard ==
    /\ deq.pc = "guard"
    /\ deq' = DictEqGuard(deq)

NextEqFine ==
    /\ DictEqStart \/ F_TakeA \/ F_TakeB \/ F_Guard \/ DictEqReturn
    /\ UNCHANGED <<store, now, last, ref, owner, pcs>>

SpecEqFine == InitEq /\ [][NextEqFine]_vars

Unmatched == DictLen(deq.am) + DictLen(deq.bm)

\* The two mappings under comparison are equal.
EqualMappings == Len(deq.a) = Len(deq.b) /\ SameMapping(deq.a, deq.b)

AtMostHalf(d) == 2 * DictLen(d) <= Len(deq.a)

SameKeyOrder ==
    /\ Len(deq.a) = Len(deq.b)
    /\ \A i \in 1..Len(deq.a) : deq.a[i][1] = deq.b[i][1]

\* C32: when the two mappings yield their keys in the same order, both
\* stores of unmatched items are empty during the whole comparison.
C32_SameOrderUsesNoMemory ==
    SameKeyOrder => (DictLen(deq.am) = 0 /\ DictLen(deq.bm) = 0)

\* Two mappings of the largest size in the same key order were compared to
\* the end and found equal.
C32_Witness ==
    /\ SameKeyOrder
    /\ Len(deq.a) = MaxItems
    /\ deq.pc = "done"
    /\ deq.ret = TRUE

(***************************************************************************)
(* RedisTTLSet.__iter__ as the generator it is: __cleanup at the first     *)
(* next(), then the pairs of dict.items(), which zscan_iter fetches from   *)
(* the store in batches while the loop runs.  Another client adds to the   *)
(* set and the clock moves between the batches.  ZSCAN returns every       *)
(* member that is in the set during the whole scan; a member added during  *)
(* the scan may be returned or not.                                        *)
(***************************************************************************)
\* One pass of the loop of __iter__ (83-89) over the pair (k, v): the answer
\* says whether k is yielded.
TS_iter_pair(ts, s, t, k, v) ==
    IF v < t THEN TS_contains(ts, s, t, k) ELSE Res(s, PyBool(TRUE), "none")

\* The items the backing sorted set of s holds.
Present(s) == {x \in TtlItems : RZ_getitem(TheTtlSet.dict, s, x).exc = "none"}

ScoreOf(s, x) == RZ_getitem(TheTtlSet.dict, s, x).ret.val

IterIdle == [pc |-> "idle", start |-> {}, scanned |-> {}]

IterCall(op, x, yielded) ==
    [op |-> op, item |-> x, yielded |-> yielded, start |-> pcs'.start, at |-> now]

\* The first next(): __cleanup (82), and the scan is opened.
J_Begin ==
    /\ pcs.pc = "idle"
    /\ store' = TS_cleanup(TheTtlSet, store, now)
    /\ pcs' = [pc |-> "scan", start |-> Present(store'), scanned |-> {}]
    /\ last' = IterCall("begin", PyNone, FALSE)
    /\ UNCHANGED <<deq, now, ref, owner>>

\* ZSCAN hands over the pair of a member it has not returned yet, and the
\* loop (83-89) runs on it.
J_Pair(x) ==
    /\ pcs.pc = "scan"
    /\ x \in Present(store) \ pcs.scanned
    /\ store' = TS_iter_pair(TheTtlSet, store, now, x, ScoreOf(store, x)).store
    /\ pcs' = [pcs EXCEPT !.scanned = @ \cup {x}]
    /\ last' = IterCall("pair", x,
                        TS_iter_pair(TheTtlSet, store, now, x, ScoreOf(store, x)).ret.val)
    /\ UNCHANGED <<deq, now, ref, owner>>

\* The scan is over once every member that was there all the time has been
\* returned.
J_End ==
    /\ pcs.pc = "scan"
    /\ (pcs.start \cap Present(store)) \subseteq pcs.scanned
    /\ pcs' = IterIdle
    /\ last' = IterCall("end", PyNone, FALSE)
    /\ UNCHANGED <<deq, store, now, ref, owner>>

\* add by another client.
J_Add(x) ==
    /\ store' = TS_add(TheTtlSet, store, now, x).store
    /\ last' = [op |-> "add", item |-> x, yielded |-> FALSE, start |-> pcs.start,
                at |-> now]
    /\ UNCHANGED <<deq, now, ref, owner, pcs>>

J_Tick ==
    /\ now < MaxTime
    /\ now' = now + 1
    /\ last' = [op |-> "tick", item |-> PyNone, yielded |-> FALSE, start |-> pcs.start,
                at |-> now + 1]
    /\ UNCHANGED <<deq, store, ref, owner, pcs>>

InitTtlIter ==
    /\ deq = DictEqIdle
    /\ store = <<>>
    /\ now = 0
    /\ last = [op |-> "none", item |-> PyNone, yielded |-> FALSE, start |-> {}, at |-> 0]
    /\ ref = EmptyDict
    /\ owner = <<>>
    /\ pcs = IterIdle

NextTtlIter ==
    \/ J_Begin
    \/ \E x \in TtlItems : J_Pair(x)
    \/ J_End
    \/ \E x \in TtlItems : J_Add(x)
    \/ J_Tick

SpecTtlIter == InitTtlIter /\ [][NextTtlIter]_vars

\* C33: iteration yields only items that were in the set when it was
\* started and only items whose expiry has not passed: none that another
\* client added after the start, none that is expired and not refreshed.
C33_IterationYieldsOnlyInitialLiveItems ==
    (last.op = "pair" /\ last.yielded) =>
        /\ last.item \in last.start
        /\ last.item \in Present(store)
        /\ ScoreOf(store, last.item) >= last.at

(***************************************************************************)
(* The expiry of a key of ObjectRedis under set with and without ttl,      *)
(* memoized misses and the clock of the store.                             *)
(***************************************************************************)
ExpiryCall(op, i, k, ttl, exc) ==
    [op |-> op, inst |-> i, key |-> k, ttl |-> ttl, exc |-> exc]

\* ref.persist says that the last write of the key was a set without ttl
\* that left the key in the store, ref.had that the key was due to expire
\* when that write came.
Y_Set(i, k, v, ttl) ==
    /\ store' = OR_set(ObjInst[i], store, now, k, v, ttl).store
    /\ last' = ExpiryCall("set", i, k, ttl, OR_set(ObjInst[i], store, now, k, v, ttl).exc)
    /\ ref' = [persist |-> ttl = TtlNone /\ OR_contains(ObjInst[i], store', k),
               had |-> R_ttl(store, now, OR_ns(ObjInst[i], k)) > 0]
    /\ UNCHANGED <<deq, now, owner, pcs>>

Y_GetItem(i, k) ==
    /\ store' = OR_getitem(ObjInst[i], store, now, k).store
    /\ last' = ExpiryCall("getitem", i, k, TtlNone, OR_getitem(ObjInst[i], store, now, k).exc)
    /\ ref' = IF store' = store THEN ref ELSE [persist |-> FALSE, had |-> FALSE]
    /\ UNCHANGED <<deq, now, owner, pcs>>

Y_Tick ==
    /\ now < MaxTime
    /\ now' = now + 1
    /\ store' = Live(store, now + 1)
    /\ last' = ExpiryCall("tick", 1, PyA, TtlNone, "none")
    /\ UNCHANGED <<deq, ref, owner, pcs>>

InitExpiry ==
    /\ deq = DictEqIdle
    /\ store = <<>>
    /\ now = 0
    /\ last = ExpiryCall("none", 1, PyA, TtlNone, "none")
    /\ ref = [persist |-> FALSE, had |-> FALSE]
    /\ owner = <<>>
    /\ pcs = <<>>

NextExpiry ==
    \/ \E i \in ObjIdx, k \in CollKeys, ttl \in Ttls :
           \/ \E v \in ScalarVals : Y_Set(i, k, v, ttl)
           \/ \E v \in ListVals : Y_Set(i, k, v, ttl)
           \/ \E v \in SetVals : Y_Set(i, k, v, ttl)
           \/ \E v \in DictVals : Y_Set(i, k, v, ttl)
    \/ \E i \in ObjIdx, k \in CollKeys : Y_GetItem(i, k)
    \/ Y_Tick

SpecExpiry == InitExpiry /\ [][NextExpiry]_vars

\* The key k of o has no expiry in s: it is absent or stored for good.
NoExpiryIn(o, s, t, k) == R_ttl(s, t, OR_ns(o, k)) \in {-1, -2}

\* C34: set(key, value) without ttl leaves the key without any expiry, for
\* scalars and collections, also when the key carried a time-to-live from
\* an earlier set with ttl or from a memoized miss; the key then stays
\* until it is written again.
C34_SetWithoutTtlClearsExpiry ==
    /\ (last.op = "set" /\ last.ttl = TtlNone) =>
           NoExpiryIn(ObjInst[last.inst], store, now, last.key)
    /\ ref.persist => \A i \in ObjIdx, k \in CollKeys :
                          R_ttl(store, now, OR_ns(ObjInst[i], k)) = -1

\* A list was assigned without ttl to a key that was due to expire, and the
\* clock has since passed every time-to-live with the list still there.
C34_Witness ==
    /\ ref.persist
    /\ ref.had
    /\ last.op = "tick"
    /\ now = MaxTime
    /\ R_type(store, OR_ns(ObjInst[1], PyA)) = "list"

(***************************************************************************)
(* RedisTime: the clock of the store, asked for at most once in every      *)
(* refresh interval of the local clock.  ref is the local clock, now the   *)
(* clock of the store, pcs the RedisTime object and the position of the    *)
(* call of time() under way, owner the history of the queries.             *)
(***************************************************************************)
\* The last reading of the local clock.
MaxLocal == 7

\* The largest refresh_interval.
MaxRefresh == 2

RefreshIntervals == 1..MaxRefresh

\* __init__ (21-31).
RT_init(refresh_interval) ==
    [refresh_interval |-> refresh_interval, delta |-> 0, next_check |-> 0]

\* The test of time() (34): the local clock t has passed next_check.
RT_due(rt, t) == rt.next_check < t

\* A faulty variant of the bookkeeping that forgets the refresh interval.
RT_query_NoInterval(rt, rclock, t) ==
    [rt EXCEPT !.delta = rclock - t, !.next_check = t]

\* The bookkeeping of a query (37-39): rclock is the answer of the store
\* and t the local clock read after it.
RT_query(rt, rclock, t) ==
    [rt EXCEPT !.delta = rclock - t, !.next_check = t + rt.refresh_interval]

\* The answer without a query (41-42).
RT_local(rt, t) == rt.delta + t

TimeCall(op, ret, since) == [op |-> op, ret |-> ret, since |-> since]

TimeAt(pc, rt, rclock) == [pc |-> pc, rt |-> rt, rclock |-> rclock]

\* time() begins: it reads the local clock and compares (34).
T_Test ==
    /\ pcs.pc = "idle"
    /\ pcs' = TimeAt(IF RT_due(pcs.rt, ref) THEN "ask" ELSE "local", pcs.rt, 0)
    /\ last' = TimeCall("test", 0, 0)
    /\ UNCHANGED <<deq, store, now, ref, owner>>

\* redis.time() (35-36).  since is the local time gone by since the local
\* clock was read for the query before this one.
T_Ask ==
    /\ pcs.pc = "ask"
    /\ pcs' = TimeAt("stamp", pcs.rt, now)
    /\ owner' = [owner EXCEPT !.asks = IF @ < 2 THEN @ + 1 ELSE @]
    /\ last' = TimeCall("ask", now, IF owner.asks = 0 THEN 0 ELSE ref - owner.stamp)
    /\ UNCHANGED <<deq, store, now, ref>>

\* The local clock is read again and the object updated (37-40).
T_Stamp ==
    /\ pcs.pc = "stamp"
    /\ pcs' = TimeAt("idle", RT_query(pcs.rt, pcs.rclock, ref), 0)
    /\ owner' = [owner EXCEPT !.stamp = ref, !.offset = pcs.rclock - ref]
    /\ last' = TimeCall("stamp", pcs.rclock, 0)
    /\ UNCHANGED <<deq, store, now, ref>>

\* The answer from the local clock (41-42), read once more.
T_Local ==
    /\ pcs.pc = "local"
    /\ pcs' = TimeAt("idle", pcs.rt, 0)
    /\ last' = TimeCall("local", RT_local(pcs.rt, ref), 0)
    /\ UNCHANGED <<deq, store, now, ref, owner>>

T_LocalTick ==
    /\ ref < MaxLocal
    /\ ref' = ref + 1
    /\ last' = TimeCall("tick", 0, 0)
    /\ UNCHANGED <<deq, store, now, owner, pcs>>

T_StoreTick ==
    /\ now < MaxTime
    /\ now' = now + 1
    /\ last' = TimeCall("tick", 0, 0)
    /\ UNCHANGED <<deq, store, ref, owner, pcs>>

InitTime ==
    /\ deq = DictEqIdle
    /\ store = <<>>
    /\ now = 0
    /\ ref = 1
    /\ last = TimeCall("none", 0, 0)
    /\ owner = [asks |-> 0, stamp |-> 0, offset |-> 0]
    /\ \E ri \in RefreshIntervals : pcs = TimeAt("idle", RT_init(ri), 0)

NextTime ==
    \/ T_Test
    \/ T_Ask
    \/ T_Stamp
    \/ T_Local
    \/ T_LocalTick
    \/ T_StoreTick

SpecTime == InitTime /\ [][NextTime]_vars

\* C35: time() asks the store only when the local clock has passed
\* next_check and then sets next_check to the local time plus
\* refresh_interval; every other call answers the local clock plus the
\* offset of the last query; so at least refresh_interval of local time lies
\* between two queries.
C35_QueriesAreAnIntervalApart ==
    /\ (last.op = "ask" /\ owner.asks = 2) => last.since >= pcs.rt.refresh_interval
    /\ last.op = "stamp" =>
           /\ pcs.rt.next_check = ref + pcs.rt.refresh_interval
           /\ pcs.rt.delta = owner.offset
    /\ last.op = "local" => last.ret = ref + owner.offset
    /\ pcs.pc \in {"ask", "stamp"} => pcs.rt.next_check < ref

\* The store is asked a second time, after calls that were answered from
\* the local clock.
C35_Witness ==
    /\ last.op = "ask"
    /\ owner.asks = 2
    /\ last.since > pcs.rt.refresh_interval
    /\ pcs.rt.delta # 0

====
